---- MODULE Spec2Model ----
(***************************************************************************)
(* OmniBOR / GitBOM generation in libcpp/mkdeps.c (gcc-11.3.0).            *)
(*                                                                         *)
(* Strings are sequences of byte codes (std::string, C strings).  The file  *)
(* system is a set of directories and a map from file paths to contents,   *)
(* both keyed by resolved paths (sequences of component names).  A build   *)
(* invocation is a process that runs make_write_sha{1,256}_omnibor step    *)
(* by step, one system call per step.                                      *)
(***************************************************************************)
EXTENDS Integers, Sequences, FiniteSets, TLC

(***************************************************************************)
(* Bounds of the model.                                                    *)
(***************************************************************************)
\* longest Ledger dependency list drawn by Init
MaxDeps == 2

(***************************************************************************)
(* Program constants.                                                      *)
(***************************************************************************)
GITOID_LENGTH_SHA1 == 20
GITOID_LENGTH_SHA256 == 32

\* std::string::npos, as the value that npos + 1 == 0 wraps to
npos == 0 - 1

\* string literals of mkdeps.c, as byte codes
Str_blob == <<98, 108, 111, 98, 32>>                       \* "blob "
Str_header_sha1 ==
  <<103, 105, 116, 111, 105, 100, 58, 98, 108, 111, 98, 58, 115, 104, 97, 49, 10>>
Str_header_sha256 ==
  <<103, 105, 116, 111, 105, 100, 58, 98, 108, 111, 98, 58, 115, 104, 97, 50, 53, 54, 10>>
Str_objects == <<111, 98, 106, 101, 99, 116, 115>>         \* "objects"
Str_gitoid_blob_sha1 ==
  <<103, 105, 116, 111, 105, 100, 95, 98, 108, 111, 98, 95, 115, 104, 97, 49>>
Str_gitoid_blob_sha256 ==
  <<103, 105, 116, 111, 105, 100, 95, 98, 108, 111, 98, 95, 115, 104, 97, 50, 53, 54>>
Str_metadata == <<109, 101, 116, 97, 100, 97, 116, 97>>    \* "metadata"
Str_gnu == <<103, 110, 117>>                               \* "gnu"
Str_dot_metadata == <<46, 109, 101, 116, 97, 100, 97, 116, 97>>  \* ".metadata"
Str_a_out == <<97, 46, 111, 117, 116>>                     \* "a.out"
Str_not_available_u ==
  <<110, 111, 116, 95, 97, 118, 97, 105, 108, 97, 98, 108, 101>>   \* "not_available"
Str_not_available_sp ==
  <<110, 111, 116, 32, 97, 118, 97, 105, 108, 97, 98, 108, 101>>   \* "not available"
Str_outfile_path ==
  <<111, 117, 116, 102, 105, 108, 101, 58, 32, 32, 112, 97, 116, 104, 58, 32>>
Str_infile == <<105, 110, 102, 105, 108, 101, 58, 32>>     \* "infile: "
Str_path == <<32, 112, 97, 116, 104, 58, 32>>              \* " path: "
Str_build_cmd == <<98, 117, 105, 108, 100, 95, 99, 109, 100, 58, 32>>
Str_opt_o == <<39, 45, 111, 39>>                           \* "'-o'"
Str_opt_E == <<39, 45, 69, 39>>                            \* "'-E'"
Str_opt_S == <<39, 45, 83, 39>>                            \* "'-S'"
Str_opt_c == <<39, 45, 99, 39>>                            \* "'-c'"
Str_dot_o == <<46, 111>>                                   \* ".o"
Str_dot_s == <<46, 115>>                                   \* ".s"
Str_slash == <<47>>                                        \* "/"
Str_nl == <<10>>                                           \* "\n"
\* the hex digits "0123456789abcdef"
lut == <<48, 49, 50, 51, 52, 53, 54, 55, 56, 57, 97, 98, 99, 100, 101, 102>>

(***************************************************************************)
(* std::string operations used by mkdeps.c (positions are 0-based).        *)
(***************************************************************************)
Min(a, b) == IF a < b THEN a ELSE b

\* s.find (c) and s.find_first_of (c)
Find(s, c) ==
  IF \E i \in 1..Len(s) : s[i] = c
  THEN (CHOOSE i \in 1..Len(s) : s[i] = c /\ \A j \in 1..(i - 1) : s[j] # c) - 1
  ELSE npos

\* s.find_last_of (c)
FindLast(s, c) ==
  IF \E i \in 1..Len(s) : s[i] = c
  THEN (CHOOSE i \in 1..Len(s) : s[i] = c /\ \A j \in (i + 1)..Len(s) : s[j] # c) - 1
  ELSE npos

\* s.substr (pos, n) for pos <= s.length (); a count that wrapped below zero
\* is a huge size_t and takes the rest of the string
Substr(s, pos, n) ==
  LET avail == Len(s) - pos
      cnt == IF n < 0 THEN avail ELSE Min(n, avail)
  IN  SubSeq(s, pos + 1, pos + cnt)

\* s.erase (pos, n)
Erase(s, pos, n) == SubSeq(s, 1, pos) \o SubSeq(s, pos + n + 1, Len(s))

\* std::to_string (n) and sprintf ("%ld") of a non-negative number
RECURSIVE Decimal(_)
Decimal(n) ==
  IF n < 10 THEN <<48 + n>> ELSE Decimal(n \div 10) \o <<48 + (n % 10)>>

\* operator< of std::string
StrLess(a, b) ==
  \E i \in 1..(Min(Len(a), Len(b)) + 1) :
    /\ \A j \in 1..(i - 1) : a[j] = b[j]
    /\ \/ i > Len(a) /\ i <= Len(b)
       \/ i <= Len(a) /\ i <= Len(b) /\ a[i] < b[i]

(***************************************************************************)
(* The digest primitives of include/sha1.h and sha256.h.  A context is the *)
(* byte stream fed so far; the digest is a function of the whole stream    *)
(* (a small mixing function stands for the compression rounds) giving 20   *)
(* or 32 bytes.                                                            *)
(***************************************************************************)
sha_init_ctx == <<>>

sha_process_bytes(buffer, len, ctx) == ctx \o SubSeq(buffer, 1, len)

\* the sum over the stream of each byte weighted by its position
RECURSIVE Mix(_, _, _, _)
Mix(stream, lo, hi, mult) ==
  IF lo > hi THEN 0
  ELSE IF lo = hi THEN (stream[lo] + 1) * (((lo * mult + lo * lo) % 251) + 1)
  ELSE LET mid == (lo + hi) \div 2
       IN  (Mix(stream, lo, mid, mult) + Mix(stream, mid + 1, hi, mult)) % 65521

sha1_finish_ctx(ctx) ==
  LET s == (5381 + Len(ctx) + Mix(ctx, 1, Len(ctx), 33)) % 65521
  IN  SubSeq([k \in 1..GITOID_LENGTH_SHA1 |->
                (s * (2 * k + 1) + (s \div (k + 1)) + 7 * k) % 256],
             1, GITOID_LENGTH_SHA1)

sha256_finish_ctx(ctx) ==
  LET s == (6967 + Len(ctx) + Mix(ctx, 1, Len(ctx), 131)) % 65521
  IN  SubSeq([k \in 1..GITOID_LENGTH_SHA256 |->
                (s * (2 * k + 3) + (s \div (k + 2)) + 11 * k) % 256],
             1, GITOID_LENGTH_SHA256)

(***************************************************************************)
(* calculate_sha1_omnibor, calculate_sha256_omnibor and their              *)
(* _with_contents variants.  hash_func_type is 0 (SHA1) or 1 (SHA256).     *)
(***************************************************************************)
\* omnibor_init_stream with the terminating NUL of init_data left out of the
\* digest (init_data.length () - 1 bytes fed)
omnibor_init_stream_no_nul(file_size) ==
  LET init_data == Str_blob \o Decimal(file_size) \o <<0>>
  IN  sha_process_bytes(init_data, Len(init_data) - 1, sha_init_ctx)

\* init_data is "blob " + std::to_string (file_size) + '\0'; it is copied
\* into init_data_char_array with one more terminating NUL, and
\* init_data.length () bytes of that array are fed to the digest
omnibor_init_stream(file_size) ==
  LET init_data == Str_blob \o Decimal(file_size) \o <<0>>
      init_data_char_array == init_data \o <<0>>
  IN  sha_process_bytes(init_data_char_array, Len(init_data), sha_init_ctx)

\* the stream calculate_sha{1,256}_omnibor feeds from an open file:
\* file_size is ftell at the end of the file, file_contents is what fread
\* returns
omnibor_file_stream(dep_file) ==
  LET file_size == Len(dep_file)
      file_contents == dep_file
  IN  sha_process_bytes(file_contents, file_size, omnibor_init_stream(file_size))

\* the stream calculate_sha{1,256}_omnibor_with_contents feeds from a
\* std::string: file_size is contents.length (), file_contents is a copy of
\* the string with a terminating NUL, of which file_size bytes are fed
omnibor_contents_stream(contents) ==
  LET file_size == Len(contents)
      file_contents == contents \o <<0>>
  IN  sha_process_bytes(file_contents, file_size, omnibor_init_stream(file_size))

sha_finish_ctx(ctx, hash_func_type) ==
  IF hash_func_type = 0 THEN sha1_finish_ctx(ctx) ELSE sha256_finish_ctx(ctx)

calculate_omnibor(dep_file, hash_func_type) ==
  sha_finish_ctx(omnibor_file_stream(dep_file), hash_func_type)

calculate_omnibor_with_contents(contents, hash_func_type) ==
  sha_finish_ctx(omnibor_contents_stream(contents), hash_func_type)

\* the loops over resblock that append lut[high] and lut[low]
RECURSIVE HexOf(_, _, _)
HexOf(resblock, i, acc) ==
  IF i > Len(resblock) THEN acc
  ELSE HexOf(resblock, i + 1,
             acc \o <<lut[(resblock[i] \div 16) + 1], lut[(resblock[i] % 16) + 1]>>)

(***************************************************************************)
(* State.                                                                  *)
(***************************************************************************)
VARIABLES
  dirs,        \* the directories of the file system (resolved paths)
  files,       \* the regular files: resolved path -> contents
  denyLevel,   \* the level of the store tree the environment refuses
  result_dir,  \* the root directory path given to the writers (a string)
  environ,     \* the process environment: variable name -> value
  proc,        \* the build invocations: locals of the running call
  snap,        \* the file system as the first of two sequential calls left it
  ledger       \* the Ledger (class mkdeps), its snapshot stream and its calls

vars == <<dirs, files, denyLevel, result_dir, environ, proc, snap, ledger>>

Procs == {1, 2}

(***************************************************************************)
(* The file system: path resolution, permissions and the system calls.     *)
(***************************************************************************)
Str_w == <<119>>           \* "w"
Str_d == <<100>>           \* "d"
\* the current working directory of the build, /w
cwd == <<Str_w>>
\* what a path string that names nothing resolves to
NoPath == << <<>> >>

\* the components of a path string: runs of '/' separate, none is empty
RECURSIVE Components(_)
Components(s) ==
  LET q == Find(s, 47) IN
  IF s = <<>> THEN <<>>
  ELSE IF q = npos THEN <<s>>
  ELSE IF q = 0 THEN Components(Substr(s, 1, npos))
  ELSE <<Substr(s, 0, q)>> \o Components(Substr(s, q + 1, npos))

\* the kernel's resolution of a path string; "" names nothing (ENOENT)
Resolve(s) ==
  IF s = <<>> THEN NoPath
  ELSE (IF s[1] = 47 THEN <<>> ELSE cwd) \o Components(s)

Parent(q) == SubSeq(q, 1, Len(q) - 1)

IsPrefix(a, b) == Len(a) <= Len(b) /\ SubSeq(b, 1, Len(a)) = a

RootPath == Resolve(result_dir)

\* the level of the store tree a resolved path is at
LevelOf(q) ==
  IF q = <<>> THEN "slash"
  ELSE IF q = RootPath THEN "root"
  ELSE IF IsPrefix(q, RootPath) THEN "inter"
  ELSE IF IsPrefix(RootPath, q)
  THEN LET rest == SubSeq(q, Len(RootPath) + 1, Len(q))
       IN  IF rest[1] = Str_objects /\ Len(rest) <= 4
           THEN <<"objects", "shard", "hex", "leaf">>[Len(rest)]
           ELSE IF rest[1] = Str_metadata /\ Len(rest) <= 4
           THEN <<"metadata", "gnu", "mdshard", "mdfile">>[Len(rest)]
           ELSE "other"
  ELSE "other"

\* the environment refuses to open, create or write what is at this path
Denied(q) == LevelOf(q) = denyLevel

\* opendir (path) returns a stream
opendir_ok(q) == q \in dirs /\ ~Denied(q)

\* the directories after mkdir (path) or mkdirat (dfd, name); the result of
\* the call is ignored by every caller
mkdir_dirs(q) ==
  IF /\ q # NoPath
     /\ Len(q) > 0
     /\ Parent(q) \in dirs
     /\ q \notin dirs
     /\ q \notin DOMAIN files
     /\ ~Denied(q)
  THEN dirs \cup {q}
  ELSE dirs

\* fopen (path, "wx"): an exclusive create, which an existing file fails
fopen_wx_ok(q) ==
  /\ q # NoPath
  /\ Len(q) > 0
  /\ Parent(q) \in dirs
  /\ q \notin dirs
  /\ q \notin DOMAIN files
  /\ ~Denied(q)

\* fopen (path, "w") returns a stream (and has created or truncated the file)
fopen_w_ok(q) ==
  /\ q # NoPath
  /\ Len(q) > 0
  /\ Parent(q) \in dirs
  /\ q \notin dirs
  /\ ~Denied(q)

\* the contents of a file after write () of bytes at an offset (a gap is
\* filled with NUL bytes)
Zeros(n) == IF n <= 0 THEN <<>> ELSE SubSeq([k \in 1..n |-> 0], 1, n)

\* write () on a descriptor opened with O_APPEND: the offset is ignored
write_at_append(old, off, bytes) == old \o bytes

write_at(old, off, bytes) ==
  SubSeq(old, 1, Min(off, Len(old))) \o Zeros(off - Len(old)) \o bytes
    \o SubSeq(old, off + Len(bytes) + 1, Len(old))

\* fopen (path, "rb") returns a stream
fopen_rb_ok(s) == Resolve(s) \in DOMAIN files

\* getenv
getenv_set(n) == n \in DOMAIN environ

(***************************************************************************)
(* make_write_sha1_omnibor / make_write_sha256_omnibor: the dependency     *)
(* records, their order, and the document text.                            *)
(***************************************************************************)
\* the loop ended (break) by the first file that cannot be opened
RECURSIVE HashDeps_break(_, _, _, _)
HashDeps_break(deps, ix, hash_func_type, vect_file_contents) ==
  IF ix > Len(deps) \/ ~fopen_rb_ok(deps[ix]) THEN vect_file_contents
  ELSE LET resblock == calculate_omnibor(files[Resolve(deps[ix])], hash_func_type)
           dep_pair == [name |-> deps[ix], gitoid |-> HexOf(resblock, 1, <<>>)]
       IN  HashDeps_break(deps, ix + 1, hash_func_type,
                          Append(vect_file_contents, dep_pair))

\* the loop over pfile->deps->deps: a file that cannot be opened is
\* skipped, every other one gives an omnibor_dep (name, gitoid)
RECURSIVE HashDeps(_, _, _, _)
HashDeps(deps, ix, hash_func_type, vect_file_contents) ==
  IF ix > Len(deps) THEN vect_file_contents
  ELSE IF ~fopen_rb_ok(deps[ix])
       THEN HashDeps(deps, ix + 1, hash_func_type, vect_file_contents)
       ELSE LET resblock == calculate_omnibor(files[Resolve(deps[ix])], hash_func_type)
                temp_file_contents == HexOf(resblock, 1, <<>>)
                dep_pair == [name |-> deps[ix], gitoid |-> temp_file_contents]
            IN  HashDeps(deps, ix + 1, hash_func_type,
                         Append(vect_file_contents, dep_pair))

\* omnibor_cmp comparing the names of the records instead of their gitoids
omnibor_cmp_by_name(first, second) == StrLess(first.name, second.name)

omnibor_cmp(first, second) == StrLess(first.gitoid, second.gitoid)

\* std::sort left out: the records stay in discovery order
std_sort_left_out(v) == {v}

\* std::sort (begin, end, omnibor_cmp): some permutation of the records in
\* which no record compares less than an earlier one (std::sort promises
\* no order among records that compare equal)
std_sort(v) ==
  {s \in {[i \in 1..Len(v) |-> v[f[i]]] : f \in Permutations(1..Len(v))} :
     \A i \in 1..Len(s) : \A j \in (i + 1)..Len(s) : ~omnibor_cmp(s[j], s[i])}

\* the header line the writer starts new_file_contents with
omnibor_header(hash_func_type) ==
  IF hash_func_type = 0 THEN Str_header_sha1 ELSE Str_header_sha256

\* create_omnibor_document_file: one "blob <gitoid>\n" per record
RECURSIVE omnibor_document(_, _, _)
omnibor_document(new_file_contents, vect_file_contents, ix) ==
  IF ix > Len(vect_file_contents) THEN new_file_contents
  ELSE omnibor_document(
         new_file_contents \o Str_blob \o vect_file_contents[ix].gitoid \o Str_nl,
         vect_file_contents, ix + 1)

\* create_omnibor_document_file: the hex name of the document
omnibor_name(new_file_contents, hash_func_type) ==
  HexOf(calculate_omnibor_with_contents(new_file_contents, hash_func_type), 1, <<>>)

(***************************************************************************)
(* Directory streams of a process.  A DIR * is a positive identifier, NULL *)
(* is 0; opened is the set of <<identifier, directory>> of the streams the *)
(* process holds open.                                                     *)
(***************************************************************************)
Range(s) == {s[i] : i \in DOMAIN s}

\* the locals after dir = opendir (s); the stream is Handle(P, s)
OpenDir(P, s) ==
  IF opendir_ok(Resolve(s))
  THEN [P EXCEPT !.opened = @ \cup {<<P.nfd, Resolve(s)>>}, !.nfd = @ + 1]
  ELSE P

Handle(P, s) == IF opendir_ok(Resolve(s)) THEN P.nfd ELSE 0

\* the directory mkdirat (dirfd (dir), name) creates name in; dirfd of a
\* stream that is not open gives no directory
DirOf(P, dir) ==
  IF \E o \in P.opened : o[1] = dir
  THEN (CHOOSE o \in P.opened : o[1] = dir)[2]
  ELSE NoPath

\* a create that names the directory from the working directory
mkdirat_dirs_cwd(P, dir, name) == mkdir_dirs(Resolve(name))

mkdirat_dirs(P, dir, name) ==
  IF DirOf(P, dir) = NoPath THEN dirs ELSE mkdir_dirs(Append(DirOf(P, dir), name))

\* closedir on each stream of a list
CloseDirs(P, list) == [P EXCEPT !.opened = {o \in @ : o[1] \notin Range(list)}]

\* The call returns value after closedir on each stream of list.  closedir
\* (NULL) is undefined: the C library either rejects it (EINVAL) or
\* dereferences the null pointer and the process dies.
Return(p, P, value, list) ==
  \E dies \in (IF 0 \in Range(list) THEN BOOLEAN ELSE {FALSE}) :
    proc' = [proc EXCEPT ![p] =
               IF dies THEN [P EXCEPT !.pc = "crashed"]
               ELSE [CloseDirs(P, list) EXCEPT !.pc = "done", !.ret = value]]

Goto(p, P, label) == proc' = [proc EXCEPT ![p] = [P EXCEPT !.pc = label]]

(***************************************************************************)
(* Paths create_omnibor_document_file builds (strings).                    *)
(***************************************************************************)
path_objects == result_dir \o Str_slash \o Str_objects

shard_namespace(hash_func_type) ==
  IF hash_func_type = 0 THEN Str_gitoid_blob_sha1 ELSE Str_gitoid_blob_sha256

path_sha(hash_func_type) ==
  path_objects \o Str_slash \o shard_namespace(hash_func_type)

\* path_sha + "/" + name.substr (0, 2)
path_dir(hash_func_type, name) ==
  path_sha(hash_func_type) \o Str_slash \o Substr(name, 0, 2)

\* the file named by the whole name (name.substr (0, std::string::npos))
new_file_path_whole_name(hash_func_type, name) ==
  path_dir(hash_func_type, name) \o Str_slash \o Substr(name, 0, npos)

\* path_dir + "/" + name.substr (2, std::string::npos)
new_file_path(hash_func_type, name) ==
  path_dir(hash_func_type, name) \o Str_slash \o Substr(name, 2, npos)

(***************************************************************************)
(* make_write_sha{1,256}_omnibor up to the call of                         *)
(* create_omnibor_document_file, and that function up to its first system *)
(* call: hash the dependencies, sort, build the text, name the document.   *)
(***************************************************************************)
make_write_omnibor(p) ==
  LET P == proc[p] IN
  /\ P.pc = "start"
  /\ \E sorted \in std_sort(HashDeps(P.deps, 1, P.hash_func_type, <<>>)) :
       LET text == omnibor_document(omnibor_header(P.hash_func_type), sorted, 1)
       IN  proc' = [proc EXCEPT ![p] =
                      [P EXCEPT !.pc = "opendir_result_dir",
                                !.vect_file_contents = sorted,
                                !.new_file_contents = text,
                                !.name = omnibor_name(text, P.hash_func_type)]]
  /\ UNCHANGED <<dirs, files, denyLevel, result_dir, environ, snap, ledger>>

(***************************************************************************)
(* create_omnibor_document_file: the root, lines 1021-1064.                *)
(***************************************************************************)
\* dir_one = opendir (result_dir)
opendir_result_dir(p) ==
  LET P == proc[p]
      dir_one == Handle(P, result_dir)
  IN
  /\ P.pc = "opendir_result_dir"
  /\ proc' = [proc EXCEPT ![p] =
       IF dir_one # 0
       THEN [OpenDir(P, result_dir) EXCEPT !.dir_one = dir_one, !.dfd1 = dir_one,
                                           !.pc = "mkdirat_objects"]
       ELSE [P EXCEPT !.pc = "mkdir_result_dir"]]
  /\ UNCHANGED <<dirs, files, denyLevel, result_dir, environ, snap, ledger>>

\* mkdir (result_dir, S_IRWXU)
mkdir_result_dir(p) ==
  LET P == proc[p] IN
  /\ P.pc = "mkdir_result_dir"
  /\ dirs' = mkdir_dirs(Resolve(result_dir))
  /\ Goto(p, P, "reopendir_result_dir")
  /\ UNCHANGED <<files, denyLevel, result_dir, environ, snap, ledger>>

\* dir_one = opendir (result_dir) again; when it is still NULL the path is
\* walked by open_all_directories_in_path unless result_dir is ""
reopendir_result_dir(p) ==
  LET P == proc[p]
      dir_one == Handle(P, result_dir)
  IN
  /\ P.pc = "reopendir_result_dir"
  /\ IF dir_one # 0
     THEN proc' = [proc EXCEPT ![p] =
            [OpenDir(P, result_dir) EXCEPT !.dir_one = dir_one, !.dfd1 = dir_one,
                                           !.pc = "mkdirat_objects"]]
     ELSE IF Len(result_dir) # 0
     THEN proc' = [proc EXCEPT ![p] =
            [P EXCEPT !.pc = "oa_start", !.res_dir = result_dir, !.path = <<>>,
                      !.dir_name = <<>>, !.absolute = 0, !.dfd = 0, !.dirs = <<>>]]
     ELSE Return(p, P, <<>>, <<>>)
  /\ UNCHANGED <<dirs, files, denyLevel, result_dir, environ, snap, ledger>>

(***************************************************************************)
(* open_all_directories_in_path, called with result_dir and the vector     *)
(* dirs.  site is the place of the function that handles the component:    *)
(* "first" (lines 521-539), "loop" (541-569) or "last" (571-582).          *)
(***************************************************************************)
\* while (p == 0) { res_dir.erase (0, 1); p = res_dir.find ('/'); }
RECURSIVE SkipSlashes(_)
SkipSlashes(res_dir) ==
  IF Find(res_dir, 47) = 0 THEN SkipSlashes(Erase(res_dir, 0, 1)) ELSE res_dir

\* The locals once the component at hand has been handled with stream dir
\* (pushed on dirs): the head of the while loop of line 541 and the test of
\* line 571 choose the next component, or the function returns dir and the
\* caller takes dirfd (final_dir) as dfd1.
oa_next(P, dir) ==
  LET pushed == [P EXCEPT !.dirs = Append(@, dir), !.dfd = dir] IN
  IF P.site = "last"
  THEN [pushed EXCEPT !.pc = "mkdirat_objects", !.dfd1 = dir]
  ELSE
    LET erased == Erase(P.res_dir, 0, Len(P.dir_name) + 1)
        rest == IF Find(erased, 47) # npos THEN SkipSlashes(erased) ELSE erased
        q == Find(rest, 47)
    IN  IF Find(erased, 47) # npos /\ q # npos
        THEN [pushed EXCEPT !.pc = "oa_opendir", !.site = "loop", !.res_dir = rest,
                            !.dir_name = Substr(rest, 0, q),
                            !.path = @ \o Str_slash \o Substr(rest, 0, q)]
        ELSE IF Len(rest) > 0
        THEN [pushed EXCEPT !.pc = "oa_opendir", !.site = "last", !.res_dir = rest,
                            !.dir_name = rest,
                            !.path = @ \o Str_slash \o rest]
        ELSE [pushed EXCEPT !.pc = "mkdirat_objects", !.dfd1 = dir, !.res_dir = rest]

\* lines 483-496 and 521-522: a root without '/' is refused; an absolute one
\* starts at "/"
oa_start(p) ==
  LET P == proc[p]
      q == Find(P.res_dir, 47)
  IN
  /\ P.pc = "oa_start"
  /\ IF q = npos
     THEN Return(p, P, <<>>, P.dirs)
     ELSE IF q = 0
     THEN proc' = [proc EXCEPT ![p] =
            [P EXCEPT !.pc = "oa_opendir_slash", !.absolute = 1, !.path = Str_slash]]
     ELSE proc' = [proc EXCEPT ![p] =
            [P EXCEPT !.pc = "oa_opendir", !.site = "first",
                      !.dir_name = Substr(P.res_dir, 0, q),
                      !.path = Substr(P.res_dir, 0, q)]]
  /\ UNCHANGED <<dirs, files, denyLevel, result_dir, environ, snap, ledger>>

\* lines 498-522: dir = opendir ("/"); dfd = dirfd (dir); dirs->push_back
\* (dir); then the first component is found.  dirfd (NULL) is undefined: the
\* C library dereferences the null pointer and the process dies, or it
\* gives an invalid descriptor.
oa_opendir_slash(p) ==
  LET P == proc[p]
      dir == Handle(P, P.path)
      Q == [OpenDir(P, P.path) EXCEPT !.dirs = Append(@, dir), !.dfd = dir]
      erased == Erase(P.res_dir, 0, 1)
      rest == IF Find(erased, 47) # npos THEN SkipSlashes(erased) ELSE erased
      q == Find(rest, 47)
  IN
  /\ P.pc = "oa_opendir_slash"
  /\ \E dies \in (IF dir = 0 THEN BOOLEAN ELSE {FALSE}) :
       IF dies
       THEN Goto(p, P, "crashed")
       ELSE IF q = npos
       THEN Return(p, Q, <<>>, Q.dirs)
       ELSE proc' = [proc EXCEPT ![p] =
              [Q EXCEPT !.pc = "oa_opendir", !.site = "first", !.res_dir = rest,
                        !.dir_name = Substr(rest, 0, q),
                        !.path = @ \o Substr(rest, 0, q)]]
  /\ UNCHANGED <<dirs, files, denyLevel, result_dir, environ, snap, ledger>>

\* dir = opendir (path.c_str ()) of lines 524, 556 and 575
oa_opendir(p) ==
  LET P == proc[p]
      dir == Handle(P, P.path)
  IN
  /\ P.pc = "oa_opendir"
  /\ proc' = [proc EXCEPT ![p] =
       IF dir # 0 THEN oa_next(OpenDir(P, P.path), dir)
       ELSE [P EXCEPT !.pc = "oa_mkdir"]]
  /\ UNCHANGED <<dirs, files, denyLevel, result_dir, environ, snap, ledger>>

\* mkdir (dir_name) for the first component of a relative root, mkdirat
\* (dfd, dir_name) otherwise (lines 526-529, 558, 577)
oa_mkdir(p) ==
  LET P == proc[p] IN
  /\ P.pc = "oa_mkdir"
  /\ dirs' = IF P.site = "first" /\ P.absolute = 0
             THEN mkdir_dirs(Resolve(P.dir_name))
             ELSE mkdirat_dirs(P, P.dfd, P.dir_name)
  /\ Goto(p, P, "oa_reopendir")
  /\ UNCHANGED <<files, denyLevel, result_dir, environ, snap, ledger>>

\* dir = opendir (path.c_str ()) after the create.  NULL returns NULL at
\* the first two sites; the last site pushes dir unchecked and returns it.
\* The caller then closes dirs and returns "" (lines 1045-1048).
oa_reopendir(p) ==
  LET P == proc[p]
      dir == Handle(P, P.path)
  IN
  /\ P.pc = "oa_reopendir"
  /\ IF dir # 0
     THEN proc' = [proc EXCEPT ![p] = oa_next(OpenDir(P, P.path), dir)]
     ELSE IF P.site = "last"
     THEN Return(p, [P EXCEPT !.dirs = Append(@, dir)], <<>>, Append(P.dirs, dir))
     ELSE Return(p, P, <<>>, P.dirs)
  /\ UNCHANGED <<dirs, files, denyLevel, result_dir, environ, snap, ledger>>

(***************************************************************************)
(* create_omnibor_document_file: objects/, the shard namespace, the        *)
(* two-hex directory and the document file, lines 1034-1135.               *)
(***************************************************************************)
\* what the failure branches close after their own streams:
\* close_all_directories_in_path (dirs); if (result_dir && dir_one) closedir
\* (dir_one)
CloseList(P, own) ==
  own \o P.dirs \o (IF P.dir_one # 0 THEN <<P.dir_one>> ELSE <<>>)

\* mkdirat (dfd1, "objects", S_IRWXU)
mkdirat_objects(p) ==
  LET P == proc[p] IN
  /\ P.pc = "mkdirat_objects"
  /\ dirs' = mkdirat_dirs(P, P.dfd1, Str_objects)
  /\ Goto(p, P, "opendir_objects")
  /\ UNCHANGED <<files, denyLevel, result_dir, environ, snap, ledger>>

\* dir_two = opendir (path_objects.c_str ())
opendir_objects(p) ==
  LET P == proc[p]
      dir_two == Handle(P, path_objects)
  IN
  /\ P.pc = "opendir_objects"
  /\ IF dir_two # 0
     THEN proc' = [proc EXCEPT ![p] =
            [OpenDir(P, path_objects) EXCEPT !.dir_two = dir_two, !.pc = "mkdirat_sha"]]
     ELSE Return(p, P, <<>>, CloseList(P, <<>>))
  /\ UNCHANGED <<dirs, files, denyLevel, result_dir, environ, snap, ledger>>

\* mkdirat (dfd2, "gitoid_blob_sha1" or "gitoid_blob_sha256", S_IRWXU)
mkdirat_sha(p) ==
  LET P == proc[p] IN
  /\ P.pc = "mkdirat_sha"
  /\ dirs' = mkdirat_dirs(P, P.dir_two, shard_namespace(P.hash_func_type))
  /\ Goto(p, P, "opendir_sha")
  /\ UNCHANGED <<files, denyLevel, result_dir, environ, snap, ledger>>

\* dir_three = opendir (path_sha.c_str ())
opendir_sha(p) ==
  LET P == proc[p]
      dir_three == Handle(P, path_sha(P.hash_func_type))
  IN
  /\ P.pc = "opendir_sha"
  /\ IF dir_three # 0
     THEN proc' = [proc EXCEPT ![p] =
            [OpenDir(P, path_sha(P.hash_func_type))
               EXCEPT !.dir_three = dir_three, !.pc = "mkdirat_hex"]]
     ELSE Return(p, P, <<>>, CloseList(P, <<P.dir_two>>))
  /\ UNCHANGED <<dirs, files, denyLevel, result_dir, environ, snap, ledger>>

\* mkdirat (dfd3, name.substr (0, 2).c_str (), S_IRWXU)
mkdirat_hex(p) ==
  LET P == proc[p] IN
  /\ P.pc = "mkdirat_hex"
  /\ dirs' = mkdirat_dirs(P, P.dir_three, Substr(P.name, 0, 2))
  /\ Goto(p, P, "opendir_hex")
  /\ UNCHANGED <<files, denyLevel, result_dir, environ, snap, ledger>>

\* dir_four = opendir (path_dir.c_str ())
opendir_hex(p) ==
  LET P == proc[p]
      dir_four == Handle(P, path_dir(P.hash_func_type, P.name))
  IN
  /\ P.pc = "opendir_hex"
  /\ IF dir_four # 0
     THEN proc' = [proc EXCEPT ![p] =
            [OpenDir(P, path_dir(P.hash_func_type, P.name))
               EXCEPT !.dir_four = dir_four, !.pc = "fopen_new_file"]]
     ELSE Return(p, P, <<>>, CloseList(P, <<P.dir_three, P.dir_two>>))
  /\ UNCHANGED <<dirs, files, denyLevel, result_dir, environ, snap, ledger>>

\* new_file = fopen (new_file_path.c_str (), "w"): the file is created or
\* truncated; when it cannot be, name = "" and the metadata is written next
fopen_new_file(p) ==
  LET P == proc[p]
      q == Resolve(new_file_path(P.hash_func_type, P.name))
  IN
  /\ P.pc = "fopen_new_file"
  /\ IF fopen_w_ok(q)
     THEN /\ files' = [f \in DOMAIN files \cup {q} |-> IF f = q THEN <<>> ELSE files[f]]
          /\ Goto(p, P, "fwrite_new_file")
     ELSE /\ files' = files
          /\ proc' = [proc EXCEPT ![p] =
                        [P EXCEPT !.name = <<>>, !.pc = "md_mkdirat_metadata"]]
  /\ UNCHANGED <<dirs, denyLevel, result_dir, environ, snap, ledger>>

\* the text leaves the stdio buffer in write () calls that start at offset
\* 0: the first of two
fwrite_new_file(p) ==
  LET P == proc[p]
      q == Resolve(new_file_path(P.hash_func_type, P.name))
      half == Len(P.new_file_contents) \div 2
  IN
  /\ P.pc = "fwrite_new_file"
  /\ files' = [files EXCEPT ![q] = write_at(@, 0, SubSeq(P.new_file_contents, 1, half))]
  /\ Goto(p, P, "fclose_new_file")
  /\ UNCHANGED <<dirs, denyLevel, result_dir, environ, snap, ledger>>

\* fclose (new_file): the rest of the text is written at its offset
fclose_new_file(p) ==
  LET P == proc[p]
      q == Resolve(new_file_path(P.hash_func_type, P.name))
      half == Len(P.new_file_contents) \div 2
  IN
  /\ P.pc = "fclose_new_file"
  /\ files' = [files EXCEPT ![q] =
                 write_at(@, half, SubSeq(P.new_file_contents, half + 1,
                                          Len(P.new_file_contents)))]
  /\ Goto(p, P, "md_mkdirat_metadata")
  /\ UNCHANGED <<dirs, denyLevel, result_dir, environ, snap, ledger>>

(***************************************************************************)
(* omnibor_get_outfile_name and the output name of                         *)
(* create_omnibor_metadata_file.                                           *)
(***************************************************************************)
Str_COLLECT_GCC_OPTIONS == "COLLECT_GCC_OPTIONS"

\* the while loop of omnibor_get_outfile_name over the options that are
\* followed by a space; the result is <<path, is_E_or_S_or_c>>
RECURSIVE omnibor_get_outfile_loop(_, _, _)
omnibor_get_outfile_loop(gcc_opts_str, path, is_E_or_S_or_c) ==
  LET i == Find(gcc_opts_str, 32) IN
  IF i = npos THEN <<path, is_E_or_S_or_c>>
  ELSE
    LET temp == Substr(gcc_opts_str, 0, i)
        after == Substr(gcc_opts_str, i + 1, npos)
    IN  IF temp = Str_opt_o
        THEN LET k == Find(after, 32) IN
             IF k # npos
             THEN omnibor_get_outfile_loop(Substr(after, k + 1, npos),
                                           Substr(after, 1, k - 2), is_E_or_S_or_c)
             ELSE <<Substr(after, 1, Len(after) - 2), is_E_or_S_or_c>>
        ELSE omnibor_get_outfile_loop(
               after, path,
               IF temp = Str_opt_E THEN 3
               ELSE IF temp = Str_opt_S THEN 2
               ELSE IF temp = Str_opt_c THEN 1
               ELSE is_E_or_S_or_c)

omnibor_get_outfile_name(gcc_opts) == omnibor_get_outfile_loop(gcc_opts, <<>>, 0)

\* lines 877-917: the output name when -o gave none
\* (infile_name.substr (start, infile_name.length () - 2 - start))
default_outfile_name(deps, is_E_or_S_or_c) ==
  IF Len(deps) > 0
  THEN LET infile_name == deps[1]
           start == FindLast(infile_name, 47) + 1
           stem == Substr(infile_name, start, Len(infile_name) - 2 - start)
       IN  IF is_E_or_S_or_c = 0 THEN Str_a_out
           ELSE IF is_E_or_S_or_c = 1 THEN stem \o Str_dot_o
           ELSE IF is_E_or_S_or_c = 2 THEN stem \o Str_dot_s
           ELSE Str_not_available_u
  ELSE Str_not_available_u

\* lines 873-917
metadata_outfile_name(gcc_opts, deps) ==
  LET r == omnibor_get_outfile_name(gcc_opts)
  IN  IF r[1] = <<>> THEN default_outfile_name(deps, r[2]) ELSE r[1]

md_path_metadata == result_dir \o Str_slash \o Str_metadata
md_path_gnu == md_path_metadata \o Str_slash \o Str_gnu
md_path_sha(hash_func_type) ==
  md_path_gnu \o Str_slash \o shard_namespace(hash_func_type)

\* path_sha + "/" + outfile_name_strip + ".metadata"
md_full_filename(hash_func_type, outfile_name) ==
  md_path_sha(hash_func_type) \o Str_slash
    \o Substr(outfile_name, FindLast(outfile_name, 47) + 1, npos)
    \o Str_dot_metadata

\* the absolute path string of a resolved path
RECURSIVE AbsStr(_, _)
AbsStr(q, i) ==
  IF Len(q) = 0 THEN Str_slash
  ELSE IF i > Len(q) THEN <<>>
  ELSE Str_slash \o q[i] \o AbsStr(q, i + 1)

\* what realpath (name, buffer) can leave in the buffer: the resolved path
\* of an existing file; when nothing is at the path the call fails and the
\* buffer, which the caller reads regardless, holds the unresolved path (the
\* GNU C library) or whatever the stack held (taken as the empty string)
realpath_buffers(s) ==
  IF Resolve(s) \in dirs \cup DOMAIN files
  THEN {AbsStr(Resolve(s), 1)}
  ELSE {AbsStr(Resolve(s), 1), <<>>}

\* the infile lines, lines 944-953 (the dependency files exist: they were
\* read)
RECURSIVE metadata_infiles(_, _)
metadata_infiles(vect_file_contents, ix) ==
  IF ix > Len(vect_file_contents) THEN <<>>
  ELSE Str_infile \o vect_file_contents[ix].gitoid \o Str_path
         \o AbsStr(Resolve(vect_file_contents[ix].name), 1) \o Str_nl
         \o metadata_infiles(vect_file_contents, ix + 1)

\* the text of the metadata file, lines 928-956
metadata_text(outfile_name, outfile_name_abs, vect_file_contents) ==
  Str_outfile_path
    \o (IF outfile_name # Str_not_available_u THEN outfile_name_abs
        ELSE Str_not_available_sp)
    \o Str_nl \o metadata_infiles(vect_file_contents, 1) \o Str_build_cmd

(***************************************************************************)
(* create_omnibor_metadata_file, called at line 1137, and the end of       *)
(* create_omnibor_document_file.  When it returns false the caller sets    *)
(* name = "", closes its streams and returns name.                         *)
(***************************************************************************)
CallerStreams(P) == CloseList(P, <<P.dir_four, P.dir_three, P.dir_two>>)

\* name kept whatever create_omnibor_metadata_file returned
document_result_keep(name, metadata_written) == name

\* lines 1137-1142 and 1151: the value create_omnibor_document_file returns,
\* name unless create_omnibor_metadata_file returned false
document_result(name, metadata_written) ==
  IF metadata_written THEN name ELSE <<>>

\* mkdirat (dfd, "metadata", S_IRWXU)
md_mkdirat_metadata(p) ==
  LET P == proc[p] IN
  /\ P.pc = "md_mkdirat_metadata"
  /\ dirs' = mkdirat_dirs(P, P.dfd1, Str_metadata)
  /\ Goto(p, P, "md_opendir_metadata")
  /\ UNCHANGED <<files, denyLevel, result_dir, environ, snap, ledger>>

\* dir_metadata = opendir (path_metadata.c_str ())
md_opendir_metadata(p) ==
  LET P == proc[p]
      dir_metadata == Handle(P, md_path_metadata)
  IN
  /\ P.pc = "md_opendir_metadata"
  /\ IF dir_metadata # 0
     THEN proc' = [proc EXCEPT ![p] =
            [OpenDir(P, md_path_metadata)
               EXCEPT !.dir_metadata = dir_metadata, !.pc = "md_mkdirat_gnu"]]
     ELSE Return(p, P, document_result(P.name, FALSE), CallerStreams(P))
  /\ UNCHANGED <<dirs, files, denyLevel, result_dir, environ, snap, ledger>>

\* mkdirat (dfd_metadata, "gnu", S_IRWXU)
md_mkdirat_gnu(p) ==
  LET P == proc[p] IN
  /\ P.pc = "md_mkdirat_gnu"
  /\ dirs' = mkdirat_dirs(P, P.dir_metadata, Str_gnu)
  /\ Goto(p, P, "md_opendir_gnu")
  /\ UNCHANGED <<files, denyLevel, result_dir, environ, snap, ledger>>

\* dir_gnu = opendir (path_gnu.c_str ())
md_opendir_gnu(p) ==
  LET P == proc[p]
      dir_gnu == Handle(P, md_path_gnu)
  IN
  /\ P.pc = "md_opendir_gnu"
  /\ IF dir_gnu # 0
     THEN proc' = [proc EXCEPT ![p] =
            [OpenDir(P, md_path_gnu) EXCEPT !.dir_gnu = dir_gnu, !.pc = "md_mkdirat_sha"]]
     ELSE Return(p, P, document_result(P.name, FALSE),
                 <<P.dir_metadata>> \o CallerStreams(P))
  /\ UNCHANGED <<dirs, files, denyLevel, result_dir, environ, snap, ledger>>

\* mkdirat (dfd_gnu, "gitoid_blob_sha1" or "gitoid_blob_sha256", S_IRWXU)
md_mkdirat_sha(p) ==
  LET P == proc[p] IN
  /\ P.pc = "md_mkdirat_sha"
  /\ dirs' = mkdirat_dirs(P, P.dir_gnu, shard_namespace(P.hash_func_type))
  /\ Goto(p, P, "md_opendir_sha")
  /\ UNCHANGED <<files, denyLevel, result_dir, environ, snap, ledger>>

\* dir_sha = opendir (path_sha.c_str ())
md_opendir_sha(p) ==
  LET P == proc[p]
      dir_sha == Handle(P, md_path_sha(P.hash_func_type))
  IN
  /\ P.pc = "md_opendir_sha"
  /\ IF dir_sha # 0
     THEN proc' = [proc EXCEPT ![p] =
            [OpenDir(P, md_path_sha(P.hash_func_type))
               EXCEPT !.dir_sha = dir_sha, !.pc = "md_fopen"]]
     ELSE Return(p, P, document_result(P.name, FALSE),
                 <<P.dir_gnu, P.dir_metadata>> \o CallerStreams(P))
  /\ UNCHANGED <<dirs, files, denyLevel, result_dir, environ, snap, ledger>>

\* lines 871-925: getenv ("COLLECT_GCC_OPTIONS") is made a std::string
\* (from a null pointer when the variable is not set: the constructor
\* throws and the process dies), the output name is chosen and
\* metadata_file = fopen (full_filename.c_str (), "w")
md_fopen(p) ==
  LET P == proc[p] IN
  /\ P.pc = "md_fopen"
  /\ IF ~getenv_set(Str_COLLECT_GCC_OPTIONS)
     THEN /\ Goto(p, P, "crashed")
          /\ files' = files
     ELSE
       LET outfile_name ==
             metadata_outfile_name(environ[Str_COLLECT_GCC_OPTIONS], P.deps)
           q == Resolve(md_full_filename(P.hash_func_type, outfile_name))
       IN  IF fopen_w_ok(q)
           THEN /\ files' = [f \in DOMAIN files \cup {q} |->
                               IF f = q THEN <<>> ELSE files[f]]
                /\ proc' = [proc EXCEPT ![p] =
                     [P EXCEPT !.outfile_name = outfile_name, !.pc = "md_fclose"]]
           ELSE /\ files' = files
                /\ Return(p, [P EXCEPT !.outfile_name = outfile_name],
                          document_result(P.name, FALSE),
                          <<P.dir_sha, P.dir_gnu, P.dir_metadata>> \o CallerStreams(P))
  /\ UNCHANGED <<dirs, denyLevel, result_dir, environ, snap, ledger>>

\* lines 928-971 and 1144-1151: the record is written and closed, the
\* function returns true, the caller closes its streams and returns name
md_fclose(p) ==
  LET P == proc[p]
      q == Resolve(md_full_filename(P.hash_func_type, P.outfile_name))
  IN
  /\ P.pc = "md_fclose"
  /\ \E outfile_name_abs \in realpath_buffers(P.outfile_name) :
       files' = [files EXCEPT ![q] =
                   write_at(@, 0, metadata_text(P.outfile_name, outfile_name_abs,
                                                P.vect_file_contents))]
  /\ Return(p, P, document_result(P.name, TRUE),
            <<P.dir_sha, P.dir_gnu, P.dir_metadata>> \o CallerStreams(P))
  /\ UNCHANGED <<dirs, denyLevel, result_dir, environ, snap, ledger>>

(***************************************************************************)
(* The Ledger: class mkdeps (lines 39-123) and the functions over it.      *)
(* ledger holds the members targets, deps, vpath and quote_lwm, the        *)
(* snapshot stream f that deps_save writes and deps_restore reads, the     *)
(* text out the Make writer produced, the value ret of the last save or    *)
(* restore, whether a gcc_assert has ended the process (pc), and a record  *)
(* of the calls made (calls, added, saved, last).                          *)
(***************************************************************************)
\* the constructor: empty vectors, quote_lwm (0)
mkdeps ==
  [targets |-> <<>>, deps |-> <<>>, vpath |-> <<>>, quote_lwm |-> 0,
   f |-> <<>>, ret |-> 0, out |-> <<>>, pc |-> "live",
   calls |-> 0,
   added |-> <<>>, saved |-> <<>>,
   last |-> [op |-> "none", arg |-> <<>>, before |-> <<>>]]

\* a null pointer passed for a string
NULL == <<0 - 1>>

\* the byte of a C string at an offset; the terminating NUL past its end
CharAt(t, k) == IF k < Len(t) THEN t[k + 1] ELSE 0

\* include/filenames.h on a host without DOS paths: '/' alone separates
IS_DIR_SEPARATOR(c) == c = 47

\* libiberty filename_ncmp and filename_cmp on such a host: strncmp, strcmp
filename_ncmp(s1, s2, n) ==
  IF \A k \in 0..(n - 1) : CharAt(s1, k) = CharAt(s2, k) THEN 0 ELSE 1

filename_cmp(s1, s2) == IF s1 = s2 THEN 0 ELSE 1

\* the loop of apply_vpath taken from the earliest rule to the latest
RECURSIVE vpath_loop_forward(_, _, _)
vpath_loop_forward(vpath, i, t) ==
  LET k == Len(vpath) + 1 - i IN
  IF i = 0 THEN t
  ELSE IF /\ filename_ncmp(vpath[k].str, t, vpath[k].len) = 0
          /\ IS_DIR_SEPARATOR(CharAt(t, vpath[k].len))
          /\ ~(/\ CharAt(t, vpath[k].len + 1) = 46
               /\ CharAt(t, vpath[k].len + 2) = 46
               /\ IS_DIR_SEPARATOR(CharAt(t, vpath[k].len + 3)))
  THEN Substr(t, vpath[k].len + 1, npos)
  ELSE vpath_loop_forward(vpath, i - 1, t)

\* lines 196-215: for (unsigned i = len; i--;) over the rules; a rule whose
\* prefix matches, is followed by a separator and is not followed by "../"
\* advances t past the prefix and the separator and ends the loop
RECURSIVE vpath_loop(_, _, _)
vpath_loop(vpath, i, t) ==
  IF i = 0 THEN t
  ELSE IF filename_ncmp(vpath[i].str, t, vpath[i].len) # 0
  THEN vpath_loop(vpath, i - 1, t)
  ELSE LET p == vpath[i].len IN
       IF ~IS_DIR_SEPARATOR(CharAt(t, p))
       THEN vpath_loop(vpath, i - 1, t)
       ELSE IF /\ CharAt(t, p + 1) = 46
               /\ CharAt(t, p + 2) = 46
               /\ IS_DIR_SEPARATOR(CharAt(t, p + 3))
       THEN vpath_loop(vpath, i - 1, t)
       ELSE Substr(t, vpath[i].len + 1, npos)

\* lines 223-224: while (IS_DIR_SEPARATOR (t[0])) ++t
RECURSIVE skip_separators(_)
skip_separators(t) ==
  IF IS_DIR_SEPARATOR(CharAt(t, 0)) THEN skip_separators(Tail(t)) ELSE t

\* lines 217-225: remove leading ./ in any case
RECURSIVE remove_leading_dot_slash(_)
remove_leading_dot_slash(t) ==
  IF CharAt(t, 0) = 46 /\ IS_DIR_SEPARATOR(CharAt(t, 1))
  THEN remove_leading_dot_slash(skip_separators(Substr(t, 2, npos)))
  ELSE t

apply_vpath(d, t) ==
  remove_leading_dot_slash(vpath_loop(d.vpath, Len(d.vpath), t))

\* deps_add_target that pushes an unquoted name without the exchange
deps_add_target_push(d, t, quote) ==
  [d EXCEPT !.targets = Append(@, apply_vpath(d, t)),
            !.quote_lwm = IF quote = 0 THEN (@ + 1) % 65536 ELSE @]

\* lines 246-265; quote_lwm is an unsigned short
deps_add_target(d, t, quote) ==
  LET name == apply_vpath(d, t) IN
  IF quote = 0
  THEN IF d.quote_lwm # Len(d.targets)
       THEN LET lowest == d.targets[d.quote_lwm + 1] IN
            [d EXCEPT !.targets = Append([@ EXCEPT ![d.quote_lwm + 1] = name],
                                         lowest),
                      !.quote_lwm = (@ + 1) % 65536]
       ELSE [d EXCEPT !.targets = Append(@, name),
                      !.quote_lwm = (@ + 1) % 65536]
  ELSE [d EXCEPT !.targets = Append(@, name)]

\* lines 300-308 after gcc_assert (*t)
deps_add_dep(d, t) == [d EXCEPT !.deps = Append(@, apply_vpath(d, t))]

\* lines 315-329: the elements of a ':'-separated list, each one a velt
RECURSIVE vpath_elts(_)
vpath_elts(elem) ==
  IF elem = <<>> THEN <<>>
  ELSE LET q == Find(elem, 58)
           len == IF q = npos THEN Len(elem) ELSE q
           p == IF q = npos THEN len ELSE len + 1
       IN  <<[str |-> Substr(elem, 0, len), len |-> len]>>
             \o vpath_elts(Substr(elem, p, npos))

deps_add_vpath(d, vpath) == [d EXCEPT !.vpath = @ \o vpath_elts(vpath)]

\* munge, lines 131-189, for one string: '$' is doubled, a space or a tab
\* gets the backslashes before it doubled and one more, '#' gets one
RECURSIVE munge_loop(_, _, _)
munge_loop(probe, slashes, buf) ==
  IF probe = <<>> THEN buf
  ELSE LET c == Head(probe) IN
       IF c = 92
       THEN munge_loop(Tail(probe), slashes + 1, Append(buf, c))
       ELSE IF c = 36
       THEN munge_loop(Tail(probe), 0, buf \o <<36, c>>)
       ELSE IF c = 32 \/ c = 9
       THEN munge_loop(Tail(probe), 0,
                       buf \o [i \in 1..slashes |-> 92] \o <<92, c>>)
       ELSE IF c = 35
       THEN munge_loop(Tail(probe), 0, buf \o <<92, c>>)
       ELSE munge_loop(Tail(probe), 0, Append(buf, c))

munge(str) == munge_loop(str, 0, <<>>)

\* make_write_name, lines 358-381, on the text written so far: the result
\* is the text and the column
make_write_name(name, fp, col, colmax, quote) ==
  LET written == IF quote THEN munge(name) ELSE name
      size == Len(written)
      wrap == col # 0 /\ colmax # 0 /\ col + size > colmax
      lead == IF col = 0 THEN <<>>
              ELSE IF wrap THEN <<32, 92, 10, 32>> ELSE <<32>>
      col1 == IF col = 0 THEN 0 ELSE IF wrap THEN 1 ELSE col + 1
  IN  [fp |-> fp \o lead \o written, col |-> col1 + size]

\* make_write_vec, lines 385-393: quoting for ix >= quote_lwm
RECURSIVE make_write_vec(_, _, _, _, _, _)
make_write_vec(vec, ix, fp, col, colmax, quote_lwm) ==
  IF ix = Len(vec) THEN [fp |-> fp, col |-> col]
  ELSE LET w == make_write_name(vec[ix + 1], fp, col, colmax, ix >= quote_lwm)
       IN  make_write_vec(vec, ix + 1, w.fp, w.col, colmax, quote_lwm)

\* fwrite (&size, sizeof (size), 1, f): the bytes of a size_t, low byte first
sizeof_size_t == 8
size_t_bytes(size) ==
  LET Byte(i) == IF i = 1 THEN size % 256 ELSE IF i = 2 THEN (size \div 256) % 256 ELSE 0
  IN  [i \in 1..sizeof_size_t |-> Byte(i)]

\* fread (&size, sizeof (size), 1, fd) on such bytes
size_t_value(b) == b[1] + 256 * b[2]

\* the loop of deps_save, lines 1316-1324; fwrite (ptr, 0, 1, f) writes no
\* element and returns 0, which the function takes as a failure
RECURSIVE deps_save_loop(_, _, _)
deps_save_loop(deps, i, f) ==
  IF i = Len(deps) THEN [f |-> f, ret |-> 0]
  ELSE LET size == Len(deps[i + 1])
           g == f \o size_t_bytes(size)
       IN  IF size = 0 THEN [f |-> g, ret |-> 0 - 1]
           ELSE deps_save_loop(deps, i + 1, g \o deps[i + 1])

\* deps_save, lines 1302-1327: the stream and the value returned
deps_save(deps) == deps_save_loop(deps.deps, 0, size_t_bytes(Len(deps.deps)))

\* the loop of deps_restore with the test of self turned around
RECURSIVE deps_restore_loop_only_self(_, _, _, _, _)
deps_restore_loop_only_self(deps, fd, pos, i, self) ==
  IF i = 0 THEN [d |-> deps, ret |-> 0, pc |-> "live"]
  ELSE IF pos + sizeof_size_t > Len(fd)
  THEN [d |-> deps, ret |-> 0 - 1, pc |-> "live"]
  ELSE LET size == size_t_value(SubSeq(fd, pos + 1, pos + sizeof_size_t))
           buf == SubSeq(fd, pos + sizeof_size_t + 1, pos + sizeof_size_t + size)
       IN  IF pos + sizeof_size_t + size > Len(fd)
           THEN [d |-> deps, ret |-> 0 - 1, pc |-> "live"]
           ELSE IF self # NULL /\ filename_cmp(buf, self) = 0
           THEN IF buf = <<>>
                THEN [d |-> deps, ret |-> 0, pc |-> "aborted"]
                ELSE deps_restore_loop_only_self(deps_add_dep(deps, buf), fd,
                                     pos + sizeof_size_t + size, i - 1, self)
           ELSE deps_restore_loop_only_self(deps, fd, pos + sizeof_size_t + size,
                                            i - 1, self)

\* the loop of deps_restore, lines 1345-1367: for (unsigned i = size; i--;)
\* reads a length and that many bytes, and gives the path to deps_add_dep
\* when self is not NULL and differs from it; gcc_assert (*t) in
\* deps_add_dep ends the process on an empty path
RECURSIVE deps_restore_loop(_, _, _, _, _)
deps_restore_loop(deps, fd, pos, i, self) ==
  IF i = 0 THEN [d |-> deps, ret |-> 0, pc |-> "live"]
  ELSE IF pos + sizeof_size_t > Len(fd)
  THEN [d |-> deps, ret |-> 0 - 1, pc |-> "live"]
  ELSE LET size == size_t_value(SubSeq(fd, pos + 1, pos + sizeof_size_t))
           buf == SubSeq(fd, pos + sizeof_size_t + 1, pos + sizeof_size_t + size)
       IN  IF pos + sizeof_size_t + size > Len(fd)
           THEN [d |-> deps, ret |-> 0 - 1, pc |-> "live"]
           ELSE IF self # NULL /\ filename_cmp(buf, self) # 0
           THEN IF buf = <<>>
                THEN [d |-> deps, ret |-> 0, pc |-> "aborted"]
                ELSE deps_restore_loop(deps_add_dep(deps, buf), fd,
                                       pos + sizeof_size_t + size, i - 1, self)
           ELSE deps_restore_loop(deps, fd, pos + sizeof_size_t + size,
                                  i - 1, self)

\* deps_restore, lines 1334-1371: the count is read first
deps_restore(deps, fd, self) ==
  IF sizeof_size_t > Len(fd) THEN [d |-> deps, ret |-> 0 - 1, pc |-> "live"]
  ELSE deps_restore_loop(deps, fd, sizeof_size_t,
                         size_t_value(SubSeq(fd, 1, sizeof_size_t)), self)

\* the number of calls a behaviour makes on the Ledger
MaxCalls == 4

Called(op, arg) == [op |-> op, arg |-> arg, before |-> ledger.deps]

FsUnchanged == UNCHANGED <<dirs, files, denyLevel, result_dir, environ, proc, snap>>

\* deps_add_vpath (d, vpath)
add_vpath(Specs) ==
  /\ ledger.pc = "live"
  /\ ledger.calls < MaxCalls
  /\ \E vpath \in Specs :
       ledger' = [deps_add_vpath(ledger, vpath) EXCEPT
                    !.calls = @ + 1, !.last = Called("add_vpath", vpath)]
  /\ FsUnchanged

\* deps_add_target (d, t, quote)
add_target(Names) ==
  /\ ledger.pc = "live"
  /\ ledger.calls < MaxCalls
  /\ \E t \in Names, quote \in {0, 1} :
       ledger' = [deps_add_target(ledger, t, quote) EXCEPT
                    !.added = Append(@, [t |-> t, quote |-> quote,
                                         vpath |-> ledger.vpath]),
                    !.calls = @ + 1, !.last = Called("add_target", t)]
  /\ FsUnchanged

\* deps_add_dep (d, t): gcc_assert (*t), then the path is rewritten and
\* pushed
add_dependency(Paths) ==
  /\ ledger.pc = "live"
  /\ ledger.calls < MaxCalls
  /\ \E t \in Paths :
       ledger' = IF t = <<>>
                 THEN [ledger EXCEPT !.pc = "aborted", !.calls = @ + 1,
                                     !.last = Called("add_dependency", t)]
                 ELSE [deps_add_dep(ledger, t) EXCEPT
                         !.calls = @ + 1,
                         !.last = Called("add_dependency", t)]
  /\ FsUnchanged

\* deps_save (deps, f) on a stream opened for writing
save ==
  /\ ledger.pc = "live"
  /\ ledger.calls < MaxCalls
  /\ LET r == deps_save(ledger) IN
     ledger' = [ledger EXCEPT !.f = r.f, !.ret = r.ret, !.saved = ledger.deps,
                              !.calls = @ + 1, !.last = Called("save", <<>>)]
  /\ FsUnchanged

\* deps_restore (deps, fd, self) on the stream a save wrote
restore(Selves) ==
  /\ ledger.pc = "live"
  /\ ledger.calls < MaxCalls
  /\ ledger.f # <<>>
  /\ \E self \in Selves :
       LET r == deps_restore(ledger, ledger.f, self) IN
       ledger' = [r.d EXCEPT !.ret = r.ret, !.pc = r.pc,
                             !.calls = @ + 1,
                             !.last = Called("restore", self)]
  /\ FsUnchanged

\* make_write with colmax 0, lines 405-418: the targets, ":", the
\* dependencies and a newline, when there is a dependency
make_write ==
  /\ ledger.pc = "live"
  /\ ledger.calls < MaxCalls
  /\ LET d == ledger
         targets == make_write_vec(d.targets, 0, <<>>, 0, 0, d.quote_lwm)
         deps == make_write_vec(d.deps, 0, targets.fp \o <<58>>,
                                targets.col + 1, 0, 0)
     IN  ledger' = [ledger EXCEPT
                      !.out = IF Len(d.deps) # 0 THEN deps.fp \o <<10>> ELSE <<>>,
                      !.calls = @ + 1, !.last = Called("make_write", <<>>)]
  /\ FsUnchanged

(***************************************************************************)
(* The inputs Init draws from.                                             *)
(***************************************************************************)
\* dependency paths of the Ledger (pfile->deps->deps)
Dep_a_c == <<97, 46, 99>>                  \* "a.c"
Dep_b_h == <<98, 46, 104>>                 \* "b.h"
Dep_d_c_h == <<100, 47, 99, 46, 104>>      \* "d/c.h", the same bytes as a.c
Dep_e_h == <<101, 46, 104>>                \* "e.h"
Dep_z_h == <<122, 46, 104>>                \* "z.h", an empty file
Dep_m_h == <<109, 46, 104>>                \* "m.h", which cannot be opened
Dep_s_cc == <<115, 46, 99, 99>>                \* "s.cc"
DepCorpus == {Dep_a_c, Dep_b_h, Dep_d_c_h, Dep_e_h, Dep_z_h, Dep_m_h}

\* the source files under the working directory, by resolved path
SourceFiles ==
  (Resolve(Dep_a_c) :> <<97>>)
    @@ (Resolve(Dep_b_h) :> <<98>>)
    @@ (Resolve(Dep_d_c_h) :> <<97>>)
    @@ (Resolve(Dep_e_h) :> <<105, 110, 116, 32, 102, 32, 40, 41, 59, 10, 10>>)
    @@ (Resolve(Dep_z_h) :> <<>>)
    @@ (Resolve(Dep_s_cc) :> <<115>>)

BaseDirs == {<<>>, cwd, <<Str_w, Str_d>>}

DepLists == UNION {[1..n -> DepCorpus] : n \in 0..MaxDeps}

\* dependency lists whose first path has a two-character extension
LongExtLists == {<<Dep_s_cc>>, <<Dep_s_cc, Dep_d_c_h>>}

\* root directory paths
Root_r == <<114>>                          \* "r"
Root_x_y == <<120, 47, 121>>               \* "x/y"
Root_xx_y_ == <<120, 47, 47, 121, 47>>     \* "x//y/"
Root_t_u == <<47, 116, 47, 117>>           \* "/t/u"
Root_v == <<47, 118>>                      \* "/v"
Root_empty == <<>>                         \* ""
Roots == {Root_r, Root_x_y, Root_xx_y_, Root_t_u, Root_v, Root_empty}

\* the directory sets a root can find: the base directories and the first
\* k components of the root, for every k
InitialDirs(root) ==
  IF Resolve(root) = NoPath THEN {BaseDirs}
  ELSE {BaseDirs \cup {SubSeq(Resolve(root), 1, j) : j \in 0..k} :
          k \in 0..Len(Resolve(root))}

Levels == {"slash", "inter", "root", "objects", "shard", "hex", "leaf",
           "metadata", "gnu", "mdshard", "mdfile"}

\* values of COLLECT_GCC_OPTIONS
Opts_c_g == <<39, 45, 99, 39, 32, 39, 45, 103, 39>>                      \* "'-c' '-g'"
Opts_o_k == <<39, 45, 111, 39, 32, 39, 107, 39, 32, 39, 45, 103, 39>>    \* "'-o' 'k' '-g'"
Opts_g_c == <<39, 45, 103, 39, 32, 39, 45, 99, 39>>                      \* "'-g' '-c'"
Opts_S_g == <<39, 45, 83, 39, 32, 39, 45, 103, 39>>                      \* "'-S' '-g'"
Opts_E_g == <<39, 45, 69, 39, 32, 39, 45, 103, 39>>                      \* "'-E' '-g'"
Opts_g_O == <<39, 45, 103, 39, 32, 39, 45, 79, 39>>                      \* "'-g' '-O'"
EnvSet(opts) == (Str_COLLECT_GCC_OPTIONS :> opts)
EnvUnset == [n \in {} |-> <<>>]

\* the locals of an invocation before make_write_sha{1,256}_omnibor runs
InitProc(deps, hash_func_type, pc) ==
  [pc |-> pc, hash_func_type |-> hash_func_type, deps |-> deps,
   vect_file_contents |-> <<>>, new_file_contents |-> <<>>, name |-> <<>>,
   ret |-> <<>>, opened |-> {}, nfd |-> 1,
   dir_one |-> 0, dfd1 |-> 0, dirs |-> <<>>,
   dir_two |-> 0, dir_three |-> 0, dir_four |-> 0,
   res_dir |-> <<>>, path |-> <<>>, dir_name |-> <<>>, site |-> "none",
   absolute |-> 0, dfd |-> 0,
   dir_metadata |-> 0, dir_gnu |-> 0, dir_sha |-> 0, outfile_name |-> <<>>]

\* the inputs: every dependency list under a root yet to be created, one
\* list under every root, refused level and set of existing directories,
\* two lists with and without the build options in the environment, and
\* three lists under build options without -o
InitInputs(deps, hash_func_type) ==
  /\ hash_func_type \in {0, 1}
  /\ files = SourceFiles
  /\ \/ /\ deps \in DepLists
        /\ result_dir = Root_r
        /\ denyLevel = "none"
        /\ environ = EnvSet(Opts_c_g)
        /\ dirs = BaseDirs
     \/ /\ deps \in {<<Dep_a_c, Dep_b_h>>}
        /\ result_dir \in Roots
        /\ denyLevel \in Levels \cup {"none"}
        /\ environ = EnvSet(Opts_c_g)
        /\ dirs \in InitialDirs(result_dir)
     \/ /\ deps \in {<<Dep_d_c_h>>, <<>>}
        /\ result_dir = Root_r
        /\ denyLevel = "none"
        /\ environ \in {EnvSet(Opts_o_k), EnvUnset}
        /\ dirs \in InitialDirs(result_dir)
     \/ /\ deps \in LongExtLists \cup {<<Dep_d_c_h>>, <<>>}
        /\ result_dir = Root_r
        /\ denyLevel = "none"
        /\ environ \in {EnvSet(Opts_c_g), EnvSet(Opts_g_c), EnvSet(Opts_S_g),
                        EnvSet(Opts_E_g), EnvSet(Opts_g_O)}
        /\ dirs = BaseDirs
  /\ snap = [taken |-> FALSE, dirs |-> dirs, files |-> files]
  /\ ledger = mkdeps

\* one invocation, and a second one of the same build once the first ended
Init ==
  \E deps \in DepLists \cup LongExtLists, hash_func_type \in {0, 1} :
    /\ InitInputs(deps, hash_func_type)
    /\ proc = [p \in Procs |->
                 InitProc(deps, hash_func_type, IF p = 1 THEN "start" ELSE "wait")]

\* the second invocation starts after the first has ended
StartSecond ==
  /\ proc[1].pc \in {"done", "crashed"}
  /\ proc[2].pc = "wait"
  /\ proc' = [proc EXCEPT ![2].pc = "start"]
  /\ snap' = [taken |-> TRUE, dirs |-> dirs, files |-> files]
  /\ UNCHANGED <<dirs, files, denyLevel, result_dir, environ, ledger>>

Step(p) ==
  \/ make_write_omnibor(p)
  \/ opendir_result_dir(p)
  \/ mkdir_result_dir(p)
  \/ reopendir_result_dir(p)
  \/ oa_start(p)
  \/ oa_opendir_slash(p)
  \/ oa_opendir(p)
  \/ oa_mkdir(p)
  \/ oa_reopendir(p)
  \/ mkdirat_objects(p)
  \/ opendir_objects(p)
  \/ mkdirat_sha(p)
  \/ opendir_sha(p)
  \/ mkdirat_hex(p)
  \/ opendir_hex(p)
  \/ fopen_new_file(p)
  \/ fwrite_new_file(p)
  \/ fclose_new_file(p)
  \/ md_mkdirat_metadata(p)
  \/ md_opendir_metadata(p)
  \/ md_mkdirat_gnu(p)
  \/ md_opendir_gnu(p)
  \/ md_mkdirat_sha(p)
  \/ md_opendir_sha(p)
  \/ md_fopen(p)
  \/ md_fclose(p)

Next == StartSecond \/ \E p \in Procs : Step(p)

Spec == Init /\ [][Next]_vars


(***************************************************************************)
(* Two invocations of the same build that run at the same time (make -j    *)
(* compiling one source twice, or two compilers sharing a store): their    *)
(* system calls interleave.                                                *)
(***************************************************************************)
ConcRoots == {Root_r, Root_x_y, Root_t_u}

InitConc ==
  \E hash_func_type \in {0, 1} :
    /\ files = SourceFiles
    /\ result_dir \in ConcRoots
    /\ denyLevel = "none"
    /\ environ = EnvSet(Opts_c_g)
    /\ dirs \in InitialDirs(result_dir)
    /\ snap = [taken |-> FALSE, dirs |-> dirs, files |-> files]
    /\ ledger = mkdeps
    /\ proc = [p \in Procs |->
                 InitProc(<<Dep_b_h, Dep_a_c>>, hash_func_type, "start")]

NextConc == \E p \in Procs : Step(p)

SpecConc == InitConc /\ [][NextConc]_vars

(***************************************************************************)
(* A build and a later build under the same root and with the same output  *)
(* name (-o k), whose dependencies are the same or differ.                 *)
(***************************************************************************)
RebuildPairs == {<<<<Dep_a_c>>, <<Dep_a_c>>>>, <<<<Dep_a_c>>, <<Dep_b_h>>>>}

InitRebuild ==
  \E pair \in RebuildPairs, hash_func_type \in {0, 1} :
    /\ files = SourceFiles
    /\ result_dir \in ConcRoots
    /\ denyLevel = "none"
    /\ environ = EnvSet(Opts_o_k)
    /\ dirs \in InitialDirs(result_dir)
    /\ snap = [taken |-> FALSE, dirs |-> dirs, files |-> files]
    /\ ledger = mkdeps
    /\ proc = [p \in Procs |->
                 InitProc(pair[p], hash_func_type,
                          IF p = 1 THEN "start" ELSE "wait")]

SpecRebuild == InitRebuild /\ [][Next]_vars

(***************************************************************************)
(* The Ledger on its own: rules, dependencies, snapshot and restore in     *)
(* any order (SpecDeps), and rules, targets and the Make writer            *)
(* (SpecTargets).  No build runs.                                          *)
(***************************************************************************)
Vpath_f_fb == <<102, 58, 102, 47, 98>>             \* "f:f/b"
Vpath_fb_f == <<102, 47, 98, 58, 102>>             \* "f/b:f"
Vpath_fb == <<102, 47, 98>>                        \* "f/b"
VpathSpecs == {Vpath_f_fb, Vpath_fb_f, Vpath_fb}

Path_fb_z_c == <<102, 47, 98, 47, 122, 46, 99>>            \* "f/b/z.c"
Path_fb_up_x == <<102, 47, 98, 47, 46, 46, 47, 120>>       \* "f/b/../x"
Path_fb_up == <<102, 47, 98, 47, 46, 46>>                  \* "f/b/.."
Path_fb_dotdotx == <<102, 47, 98, 47, 46, 46, 120>>        \* "f/b/..x"
Path_dot_slash == <<46, 47>>                               \* "./"
Path_dot_slashes_x == <<46, 47, 47, 120>>                  \* ".//x"
Path_fb == <<102, 98>>                                     \* "fb"
DepPaths == {Path_fb_z_c, Path_fb_up_x, Path_fb_up, Path_fb_dotdotx,
             Path_dot_slash, Path_dot_slashes_x, Path_fb}

Selves == {NULL, Path_fb}

Target_t_dollar == <<116, 36>>                     \* "t$"
Target_dot_u_hash == <<46, 47, 117, 35>>           \* "./u#"
TargetNames == {Target_t_dollar, Target_dot_u_hash}

InitLedger ==
  /\ files = SourceFiles
  /\ dirs = BaseDirs
  /\ result_dir = Root_r
  /\ denyLevel = "none"
  /\ environ = EnvSet(Opts_c_g)
  /\ snap = [taken |-> FALSE, dirs |-> dirs, files |-> files]
  /\ proc = [p \in Procs |-> InitProc(<<>>, 0, "wait")]
  /\ ledger = mkdeps

NextDeps ==
  \/ add_vpath(VpathSpecs)
  \/ add_dependency(DepPaths)
  \/ save
  \/ restore(Selves)

SpecDeps == InitLedger /\ [][NextDeps]_vars

NextTargets ==
  \/ add_vpath(VpathSpecs)
  \/ add_target(TargetNames)
  \/ add_dependency({Dep_a_c})
  \/ make_write

SpecTargets == InitLedger /\ [][NextTargets]_vars

(***************************************************************************)
(* Properties of the BOM document and of the gitoid.                       *)
(***************************************************************************)
\* the invocation has built its document text and named it, and has made no
\* system call on the store yet
JustBuilt(P) == P.pc = "opendir_result_dir"

HexLength(hash_func_type) ==
  2 * (IF hash_func_type = 0 THEN GITOID_LENGTH_SHA1 ELSE GITOID_LENGTH_SHA256)

\* the characters 0-9 and a-f
LowerHex == (48..57) \cup (97..102)

\* the decimal digits of a length below 1000, written out
DecimalDigits(n) ==
  IF n < 10 THEN <<48 + n>>
  ELSE IF n < 100 THEN <<48 + (n \div 10), 48 + (n % 10)>>
  ELSE <<48 + (n \div 100), 48 + ((n \div 10) % 10), 48 + (n % 10)>>

\* "blob " + decimal length + NUL + the bytes
GitoidStream(B) == Str_blob \o DecimalDigits(Len(B)) \o <<0>> \o B

\* the gitoid of a byte sequence, as the claims define it
Gitoid(B, hash_func_type) ==
  HexOf(sha_finish_ctx(GitoidStream(B), hash_func_type), 1, <<>>)

\* the dependency paths that can be read, in Ledger order
ReadableDeps(deps) == SelectSeq(deps, LAMBDA d : Resolve(d) \in DOMAIN files)

\* every order the same dependencies can be discovered in
PermutedDeps(deps) ==
  {[k \in 1..Len(deps) |-> deps[f[k]]] : f \in Permutations(1..Len(deps))}

\* C1: whatever order the dependencies of a build were discovered in, the
\* build yields the same BOM document text and the same document gitoid.
C1_OrderIndependent ==
  \A p \in Procs :
    JustBuilt(proc[p]) =>
      \A d \in PermutedDeps(proc[p].deps) :
        \A sorted \in std_sort(HashDeps(d, 1, proc[p].hash_func_type, <<>>)) :
          LET text == omnibor_document(omnibor_header(proc[p].hash_func_type),
                                       sorted, 1)
          IN  /\ text = proc[p].new_file_contents
              /\ omnibor_name(text, proc[p].hash_func_type) = proc[p].name

\* a build whose records were discovered in another order than the sorted one
C1_Witness ==
  \E p \in Procs :
    /\ JustBuilt(proc[p])
    /\ Len(proc[p].vect_file_contents) >= 2
    /\ proc[p].vect_file_contents
         # HashDeps(proc[p].deps, 1, proc[p].hash_func_type, <<>>)

\* C2: the digest of a byte sequence B is taken over "blob " + decimal
\* length of B + NUL + B, by the hasher that reads a file and by the one that
\* hashes a string alike, and is rendered as 40 (SHA-1) or 64 (SHA-256)
\* lowercase hex characters.  B ranges over the dependency files a build
\* hashed and over its document text.
C2_GitoidFormat ==
  \A p \in Procs :
    JustBuilt(proc[p]) =>
      LET P == proc[p]
          h == P.hash_func_type
          Hashed == {files[Resolve(P.vect_file_contents[i].name)] :
                       i \in 1..Len(P.vect_file_contents)}
                      \cup {P.new_file_contents}
          Rendered == {P.vect_file_contents[i].gitoid :
                         i \in 1..Len(P.vect_file_contents)} \cup {P.name}
      IN  /\ \A B \in Hashed :
               /\ omnibor_file_stream(B) = GitoidStream(B)
               /\ omnibor_contents_stream(B) = GitoidStream(B)
               /\ HexOf(calculate_omnibor(B, h), 1, <<>>)
                    = HexOf(calculate_omnibor_with_contents(B, h), 1, <<>>)
          /\ \A i \in 1..Len(P.vect_file_contents) :
               P.vect_file_contents[i].gitoid
                 = Gitoid(files[Resolve(P.vect_file_contents[i].name)], h)
          /\ P.name = Gitoid(P.new_file_contents, h)
          /\ \A g \in Rendered :
               /\ Len(g) = HexLength(h)
               /\ \A i \in 1..Len(g) : g[i] \in LowerHex

\* a build that hashed an empty file and one whose length has two digits
C2_Witness ==
  \E p \in Procs :
    /\ JustBuilt(proc[p])
    /\ \E i, j \in 1..Len(proc[p].vect_file_contents) :
         /\ Len(files[Resolve(proc[p].vect_file_contents[i].name)]) >= 10
         /\ Len(files[Resolve(proc[p].vect_file_contents[j].name)]) = 0

\* line k of a document text after its header
DocLine(text, hash_func_type, k) ==
  LET w == Len(Str_blob) + HexLength(hash_func_type) + 1
      o == Len(omnibor_header(hash_func_type)) + (k - 1) * w
  IN  SubSeq(text, o + 1, o + w)

DocLineGitoid(text, hash_func_type, k) ==
  SubSeq(DocLine(text, hash_func_type, k), Len(Str_blob) + 1,
         Len(Str_blob) + HexLength(hash_func_type))

\* C3: the document text is the header line followed by exactly one line
\* "blob <gitoid>\n" for each readable dependency of the Ledger (a file
\* listed twice, or two files of the same contents, give two lines), the
\* lines in non-decreasing order of the gitoid hex.
C3_DocumentText ==
  \A p \in Procs :
    JustBuilt(proc[p]) =>
      LET P == proc[p]
          h == P.hash_func_type
          text == P.new_file_contents
          readable == ReadableDeps(P.deps)
          n == Len(readable)
          w == Len(Str_blob) + HexLength(h) + 1
      IN  /\ Len(text) = Len(omnibor_header(h)) + n * w
          /\ SubSeq(text, 1, Len(omnibor_header(h))) = omnibor_header(h)
          /\ \A k \in 1..n :
               DocLine(text, h, k)
                 = Str_blob \o DocLineGitoid(text, h, k) \o Str_nl
          /\ \E f \in Permutations(1..n) :
               \A k \in 1..n :
                 DocLineGitoid(text, h, k) = Gitoid(files[Resolve(readable[f[k]])], h)
          /\ \A k \in 1..(n - 1) :
               ~StrLess(DocLineGitoid(text, h, k + 1), DocLineGitoid(text, h, k))

\* a build with two files of the same contents, and one whose order of
\* gitoids is not the order of the paths
C3_Witness ==
  \E p \in Procs :
    /\ JustBuilt(proc[p])
    /\ Len(proc[p].vect_file_contents) = 2
    /\ \/ proc[p].vect_file_contents[1].gitoid = proc[p].vect_file_contents[2].gitoid
       \/ StrLess(proc[p].vect_file_contents[2].name,
                  proc[p].vect_file_contents[1].name)


(***************************************************************************)
(* Properties of the object store.                                         *)
(***************************************************************************)
\* the shard path of the document of gitoid h:
\* <root>/objects/gitoid_blob_sha{1,256}/<h[0:2]>/<h[2:]>
LeafOf(h, hash_func_type) ==
  RootPath \o <<Str_objects,
                IF hash_func_type = 0 THEN Str_gitoid_blob_sha1
                ELSE Str_gitoid_blob_sha256,
                SubSeq(h, 1, 2), SubSeq(h, 3, Len(h))>>

\* no call is running: every invocation has yet to start or has ended
Idle == \A p \in Procs : proc[p].pc \in {"wait", "start", "done", "crashed"}

\* the gitoid of the document of an invocation
DocGitoid(P) == Gitoid(P.new_file_contents, P.hash_func_type)

\* the document file of an invocation is at its shard path, with its text
DocWritten(P) ==
  LET q == LeafOf(DocGitoid(P), P.hash_func_type)
  IN  q \in DOMAIN files /\ files[q] = P.new_file_contents

\* the metadata record of an invocation is in the store
MetadataFile(P) ==
  Resolve(md_full_filename(
            P.hash_func_type,
            metadata_outfile_name(environ[Str_COLLECT_GCC_OPTIONS], P.deps)))

MetadataWritten(P) ==
  /\ getenv_set(Str_COLLECT_GCC_OPTIONS)
  /\ MetadataFile(P) \in DOMAIN files

\* C4: whenever no persist call is running, every document file lies at
\* <root>/objects/gitoid_blob_sha1/<h[0:2]>/<h[2:]> (a 38-character file
\* name) or <root>/objects/gitoid_blob_sha256/<h[0:2]>/<h[2:]> (62
\* characters), h being the gitoid a successful call returned; the file
\* holds the document text as hashed, so h is the gitoid of its contents.
C4_ShardLayout ==
  Idle =>
    /\ \A p \in Procs :
         (proc[p].pc = "done" /\ proc[p].ret # <<>>) =>
           LET h == proc[p].ret
               q == LeafOf(h, proc[p].hash_func_type)
           IN  /\ q \in DOMAIN files
               /\ Len(q[Len(q)]) = (IF proc[p].hash_func_type = 0 THEN 38 ELSE 62)
               /\ files[q] = proc[p].new_file_contents
               /\ Gitoid(files[q], proc[p].hash_func_type) = h
    /\ \A f \in DOMAIN files :
         IsPrefix(RootPath \o <<Str_objects>>, f) =>
           \E hash_func_type \in {0, 1} :
             /\ Len(f) = Len(RootPath) + 4
             /\ f = LeafOf(f[Len(f) - 1] \o f[Len(f)], hash_func_type)
             /\ Len(f[Len(f) - 1]) = 2
             /\ Len(f[Len(f)]) = (IF hash_func_type = 0 THEN 38 ELSE 62)
             /\ Gitoid(files[f], hash_func_type) = f[Len(f) - 1] \o f[Len(f)]

\* a SHA-256 document persisted under a multi-level root
C4_Witness ==
  \E p \in Procs :
    /\ Idle
    /\ proc[p].pc = "done"
    /\ proc[p].ret # <<>>
    /\ proc[p].hash_func_type = 1
    /\ Len(RootPath) > 2
    /\ LeafOf(proc[p].ret, 1) \in DOMAIN files

\* C5 as the claim states it: persist returns the empty string or the
\* complete gitoid of the document, never a prefix; the complete gitoid
\* whenever the document file was written to its shard path and the empty
\* string otherwise.
C5_GitoidIffDocumentWritten ==
  Idle =>
    \A p \in Procs :
      proc[p].pc = "done" =>
        LET gitoid == DocGitoid(proc[p])
        IN  /\ proc[p].ret \in {<<>>, gitoid}
            /\ proc[p].ret = gitoid <=> DocWritten(proc[p])

\* C5, amended: persist returns the empty string or the complete gitoid of
\* the document, never a prefix; the complete gitoid whenever the document
\* file was written to its shard path and the metadata record was written
\* too, and the empty string otherwise.
C5_GitoidIffDocumentAndMetadataWritten ==
  Idle =>
    \A p \in Procs :
      proc[p].pc = "done" =>
        LET gitoid == DocGitoid(proc[p])
        IN  /\ proc[p].ret \in {<<>>, gitoid}
            /\ Len(gitoid) = HexLength(proc[p].hash_func_type)
            /\ proc[p].ret = gitoid
                 <=> (DocWritten(proc[p]) /\ MetadataWritten(proc[p]))

\* a call that wrote the document file, could not write the metadata record
\* and returned the empty string
C5_Witness ==
  \E p \in Procs :
    /\ Idle
    /\ proc[p].pc = "done"
    /\ DocWritten(proc[p])
    /\ ~MetadataWritten(proc[p])
    /\ proc[p].ret = <<>>

\* the levels of the store tree C6 names
ListedLevels == {"root", "inter", "objects", "shard", "hex", "leaf",
                 "metadata", "gnu", "mdshard", "mdfile"}

\* C6: whichever level cannot be created or opened (the root, an
\* intermediate component of a multi-level root, objects/, the shard
\* namespace, the two-hex directory, the document file, metadata/, gnu/, the
\* metadata namespace, the metadata file), the call returns, with the
\* failure value unless nothing failed, and every directory stream it
\* opened is closed.
C6_FailureClosesEveryHandle ==
  \A p \in Procs :
    (denyLevel \in ListedLevels /\ proc[p].pc \in {"done", "crashed"}) =>
      /\ proc[p].pc = "done"
      /\ proc[p].opened = {}
      /\ \/ proc[p].ret = <<>>
         \/ Idle => (DocWritten(proc[p]) /\ MetadataWritten(proc[p]))

\* the store can be written, the build options are in the environment
Benign ==
  /\ denyLevel = "none"
  /\ getenv_set(Str_COLLECT_GCC_OPTIONS)
  /\ result_dir # <<>>

\* C7: a dependency that cannot be read is left out of the document and of
\* the metadata record, and nothing is aborted: every other dependency is
\* hashed and the document is persisted; when none can be read the
\* persisted document is the header alone and its gitoid is returned.
C7_UnreadableSkipped ==
  \A p \in Procs :
    (Benign /\ proc[p].pc \notin {"wait", "start"}) =>
      LET P == proc[p]
          h == P.hash_func_type
          readable == ReadableDeps(P.deps)
          n == Len(readable)
      IN  /\ P.pc # "crashed"
          /\ Len(P.vect_file_contents) = n
          /\ Len(P.new_file_contents)
               = Len(omnibor_header(h)) + n * (Len(Str_blob) + HexLength(h) + 1)
          /\ JustBuilt(P) =>
               \E f \in Permutations(1..n) :
                 \A k \in 1..n :
                   /\ P.vect_file_contents[k].name = readable[f[k]]
                   /\ P.vect_file_contents[k].gitoid
                        = Gitoid(files[Resolve(readable[f[k]])], h)
          /\ (P.pc = "done" /\ Idle) =>
               /\ P.ret # <<>>
               /\ P.ret = DocGitoid(P)
               /\ DocWritten(P)
               /\ n = 0 => files[LeafOf(P.ret, h)] = omnibor_header(h)
               /\ MetadataWritten(P)
               /\ \E q \in Procs :
                    \E outfile_name_abs \in realpath_buffers(P.outfile_name) :
                      files[MetadataFile(P)]
                        = metadata_text(P.outfile_name, outfile_name_abs,
                                        proc[q].vect_file_contents)

\* a persisted build with a dependency that cannot be read before one that
\* can
C7_Witness ==
  \E p \in Procs :
    /\ Benign
    /\ Idle
    /\ proc[p].pc = "done"
    /\ proc[p].ret # <<>>
    /\ Len(proc[p].deps) = 2
    /\ ~fopen_rb_ok(proc[p].deps[1])
    /\ fopen_rb_ok(proc[p].deps[2])

\* C8: no failure of the writers ends the process: they return.
C8_NeverCrashes == \A p \in Procs : proc[p].pc # "crashed"

\* C9: a second persist of the same build under the same root returns what
\* the first returned and leaves the store as the first left it: no new
\* directory, no second file, the same document.
C9_Idempotent ==
  (proc[1].pc = "done" /\ proc[2].pc = "done") =>
    /\ snap.taken
    /\ proc[2].ret = proc[1].ret
    /\ dirs = snap.dirs
    /\ DOMAIN files = DOMAIN snap.files
    /\ proc[1].ret # <<>> =>
         LET q == LeafOf(proc[1].ret, proc[1].hash_func_type)
         IN  /\ files[q] = snap.files[q]
             /\ {f \in DOMAIN files : IsPrefix(RootPath \o <<Str_objects>>, f)} = {q}

\* two successful sequential calls of one build, the root created by the
\* first
C9_Witness ==
  /\ proc[1].pc = "done"
  /\ proc[2].pc = "done"
  /\ proc[1].ret # <<>>
  /\ proc[2].ret = proc[1].ret
  /\ RootPath \in snap.dirs


(***************************************************************************)
(* Properties of concurrent invocations, under SpecConc.                   *)
(***************************************************************************)
\* C10: two invocations that persist the same document under the same root
\* at the same time both return, neither fails because of the other (a
\* directory the other created between this one's failed open and its
\* create is used), both return the gitoid of the document, and once both
\* have returned the file at the shard path holds the document text.
C10_ConcurrentSameDocument ==
  /\ \A p \in Procs :
       /\ proc[p].pc # "crashed"
       /\ proc[p].pc = "done" =>
            /\ proc[p].ret = DocGitoid(proc[p])
            /\ proc[p].opened = {}
  /\ (\A p \in Procs : proc[p].pc = "done") =>
       /\ proc[1].ret = proc[2].ret
       /\ LeafOf(proc[1].ret, proc[1].hash_func_type) \in DOMAIN files
       /\ files[LeafOf(proc[1].ret, proc[1].hash_func_type)]
            = proc[1].new_file_contents
       /\ proc[2].new_file_contents = proc[1].new_file_contents

\* an invocation whose open of the root failed, about to create the root
\* the other invocation has created since
C10_Witness ==
  \E p \in Procs :
    /\ proc[p].pc = "mkdir_result_dir"
    /\ RootPath \in dirs
    /\ \A q \in Procs \ {p} : proc[q].pc \notin {"start", "wait"}


(***************************************************************************)
(* Properties of later builds, under SpecRebuild.                          *)
(***************************************************************************)
\* the files of the store: object entries and metadata records
StoreFile(f) ==
  /\ IsPrefix(RootPath, f)
  /\ Len(f) > Len(RootPath)
  /\ f[Len(RootPath) + 1] \in {Str_objects, Str_metadata}

\* C11: object-store entries and metadata records are write-once: a file
\* of the store that a build left with content C still has content C once
\* a later build has run (snap is the file system as the first build left
\* it; the files are compared when no build is running).
C11_WriteOnce ==
  (snap.taken /\ Idle) =>
    \A f \in DOMAIN snap.files :
      StoreFile(f) => (f \in DOMAIN files /\ files[f] = snap.files[f])


(***************************************************************************)
(* Properties of the root directory path.                                  *)
(***************************************************************************)
\* the names a path string lists: the non-empty runs between separators
RECURSIVE NamesOf(_, _, _)
NamesOf(s, run, acc) ==
  IF s = <<>> THEN (IF run = <<>> THEN acc ELSE Append(acc, run))
  ELSE IF Head(s) = 47
  THEN NamesOf(Tail(s), <<>>, IF run = <<>> THEN acc ELSE Append(acc, run))
  ELSE NamesOf(Tail(s), Append(run, Head(s)), acc)

\* the directory a root path string names
RootLevels ==
  (IF result_dir # <<>> /\ Head(result_dir) = 47 THEN <<>> ELSE cwd)
    \o NamesOf(result_dir, <<>>, <<>>)

\* C12: for a root path, relative or absolute, with or without repeated
\* separators or a trailing separator, whose last components do not exist
\* but can be created, persist creates each missing component inside the
\* open stream of the one above it, so from the outermost to the innermost,
\* and then succeeds: the document is stored under <root>/objects, and the
\* only directories the call adds are the components of the root and the
\* store tree below it (no level for a repeated separator).
C12_CreatesMissingLevels ==
  LET P == proc[1] IN
  Benign =>
    /\ \A p \in Procs :
         (proc[p].pc = "oa_mkdir"
            /\ ~(proc[p].site = "first" /\ proc[p].absolute = 0)) =>
           \E o \in proc[p].opened :
             /\ o[1] = proc[p].dfd
             /\ Append(o[2], proc[p].dir_name) = Resolve(proc[p].path)
             /\ IsPrefix(Resolve(proc[p].path), RootLevels)
    /\ (P.pc = "done" /\ ~snap.taken) =>
         /\ P.ret # <<>>
         /\ P.ret = DocGitoid(P)
         /\ IsPrefix(RootLevels, LeafOf(P.ret, P.hash_func_type))
         /\ DocWritten(P)
         /\ \A k \in 0..Len(RootLevels) : SubSeq(RootLevels, 1, k) \in dirs
         /\ \A q \in dirs \ snap.dirs :
              \/ IsPrefix(q, RootLevels)
              \/ /\ IsPrefix(RootLevels, q)
                 /\ q[Len(RootLevels) + 1] \in {Str_objects, Str_metadata}

\* a call has succeeded for the root "x//y/" of which x did not exist
C12_Witness ==
  /\ Benign
  /\ result_dir = Root_xx_y_
  /\ ~snap.taken
  /\ SubSeq(RootLevels, 1, 2) \notin snap.dirs
  /\ proc[1].pc = "done"
  /\ proc[1].ret # <<>>


\* C13: when the root directory path is the empty string, the document and
\* the metadata record are stored under the current working directory and
\* the gitoid of the document is returned.
C13_EmptyRootIsCwd ==
  \A p \in Procs :
    (/\ result_dir = <<>>
     /\ denyLevel = "none"
     /\ getenv_set(Str_COLLECT_GCC_OPTIONS)
     /\ proc[p].pc = "done") =>
      LET P == proc[p]
          h == DocGitoid(P)
          ns == IF P.hash_func_type = 0 THEN Str_gitoid_blob_sha1
                ELSE Str_gitoid_blob_sha256
          doc == cwd \o <<Str_objects, ns, SubSeq(h, 1, 2), SubSeq(h, 3, Len(h))>>
      IN  /\ P.ret = h
          /\ doc \in DOMAIN files
          /\ files[doc] = P.new_file_contents
          /\ \E f \in DOMAIN files :
               IsPrefix(cwd \o <<Str_metadata, Str_gnu, ns>>, f)


(***************************************************************************)
(* Properties of the output name of the metadata record.                   *)
(***************************************************************************)
\* the options of a COLLECT_GCC_OPTIONS value: what the spaces separate
RECURSIVE OptionsOf(_, _)
OptionsOf(s, run) ==
  IF s = <<>> THEN {run}
  ELSE IF Head(s) = 32 THEN {run} \cup OptionsOf(Tail(s), <<>>)
  ELSE OptionsOf(Tail(s), Append(run, Head(s)))

\* a file name with its directory and its extension removed
StemOf(name) ==
  LET base == SubSeq(name, FindLast(name, 47) + 2, Len(name))
      dot == FindLast(base, 46)
  IN  IF dot = npos THEN base ELSE SubSeq(base, 1, dot)

\* the output name C15 gives for build options without -o
DefaultOutputName(opts, deps) ==
  LET given == OptionsOf(opts, <<>>) IN
  IF deps = <<>> \/ Str_opt_E \in given THEN Str_not_available_u
  ELSE IF Str_opt_c \in given THEN StemOf(deps[1]) \o Str_dot_o
  ELSE IF Str_opt_S \in given THEN StemOf(deps[1]) \o Str_dot_s
  ELSE Str_a_out

\* C15: when no output name is given, the output name of the metadata
\* record is the first dependency's file name without directory and
\* extension plus ".o" in compile-only mode, the same plus ".s" in
\* assemble-only mode, "a.out" in link mode, and the sentinel in
\* preprocess-only mode or without dependency, for an extension of any
\* length and any position of the mode option; the record file is named
\* <basename of the output name>.metadata.
C15_DefaultOutputName ==
  \A p \in Procs :
    (/\ proc[p].pc = "md_fclose"
     /\ Str_opt_o \notin OptionsOf(environ[Str_COLLECT_GCC_OPTIONS], <<>>)) =>
      LET P == proc[p]
          name == DefaultOutputName(environ[Str_COLLECT_GCC_OPTIONS], P.deps)
      IN  /\ P.outfile_name = name
          /\ RootPath \o <<Str_metadata, Str_gnu,
                           IF P.hash_func_type = 0 THEN Str_gitoid_blob_sha1
                           ELSE Str_gitoid_blob_sha256,
                           name \o Str_dot_metadata>> \in DOMAIN files


(***************************************************************************)
(* Properties of the order of records with equal gitoids.                  *)
(***************************************************************************)
\* the names of the records of gitoid g, in the order of the sequence
NamesWithGitoid(v, g) ==
  LET Same(r) == r.gitoid = g
      s == SelectSeq(v, Same)
  IN  [i \in 1..Len(s) |-> s[i].name]

\* C19: the sort by gitoid is stable: the records with equal gitoids (files
\* with the same contents at different paths) are in Ledger order in the
\* sorted sequence, which the infile lines of the metadata record follow.
C19_SortIsStable ==
  \A p \in Procs :
    JustBuilt(proc[p]) =>
      LET P == proc[p]
          v == P.vect_file_contents
      IN  \A k \in 1..Len(v) :
            LET names == NamesWithGitoid(v, v[k].gitoid)
                Listed(d) == d \in Range(names)
            IN  names = SelectSeq(P.deps, Listed)


(***************************************************************************)
(* Properties of the path rewrite, under SpecDeps.                         *)
(***************************************************************************)
\* the path the last add_dependency call was given, and what it stored
AddedPath == ledger.last.arg
StoredPath == ledger.deps[Len(ledger.deps)]
JustAdded == ledger.last.op = "add_dependency" /\ ledger.pc = "live"

\* rule i is a prefix of the path and a separator follows it
PrefixAndSeparator(vpath, i, t) ==
  /\ Len(t) > vpath[i].len
  /\ SubSeq(t, 1, vpath[i].len) = vpath[i].str
  /\ t[vpath[i].len + 1] = 47

\* the characters after rule i and its separator begin with s
FollowedBy(vpath, i, t, s) ==
  IsPrefix(s, SubSeq(t, vpath[i].len + 2, Len(t)))

\* the path with rule i and the separator after it removed
Stripped(vpath, i, t) == SubSeq(t, vpath[i].len + 2, Len(t))

\* the latest-registered rule of a set
Latest(S) == CHOOSE i \in S : \A j \in S : j <= i

\* C14: the rules are tried from the most recently registered to the
\* earliest; the first rule whose prefix equals the leading characters of
\* the path and is followed by a separator is applied (prefix and separator
\* removed), and no other rule is.
C14_FirstMatchingRuleApplied ==
  JustAdded =>
    LET M == {i \in 1..Len(ledger.vpath) :
                PrefixAndSeparator(ledger.vpath, i, AddedPath)}
    IN  StoredPath =
          remove_leading_dot_slash(
            IF M = {} THEN AddedPath
            ELSE Stripped(ledger.vpath, Latest(M), AddedPath))

\* C14 amended: the rule applied is the most recently registered one whose
\* prefix equals the leading characters of the path, is followed by a
\* separator, and is not followed after that separator by "../"; a rule
\* followed by "../" is passed over and the earlier rules are still tried.
C14_FirstEligibleRuleApplied ==
  JustAdded =>
    LET M == {i \in 1..Len(ledger.vpath) :
                /\ PrefixAndSeparator(ledger.vpath, i, AddedPath)
                /\ ~FollowedBy(ledger.vpath, i, AddedPath, <<46, 46, 47>>)}
    IN  StoredPath =
          remove_leading_dot_slash(
            IF M = {} THEN AddedPath
            ELSE Stripped(ledger.vpath, Latest(M), AddedPath))

\* "f/b/../x" was added under the rules f, f/b: f/b was passed over and the
\* earlier rule f applied
C14_Witness ==
  /\ JustAdded
  /\ AddedPath = Path_fb_up_x
  /\ Len(ledger.vpath) = 2
  /\ ledger.vpath[2].str = <<102, 47, 98>>
  /\ StoredPath = <<98, 47, 46, 46, 47, 120>>


(***************************************************************************)
(* Properties of the snapshot, under SpecDeps.                             *)
(***************************************************************************)
\* the last call was a restore that returned 0, of a snapshot whose save
\* wrote every path
JustRestored ==
  /\ ledger.last.op = "restore"
  /\ ledger.pc = "live"
  /\ ledger.ret = 0
  /\ \A i \in 1..Len(ledger.saved) : ledger.saved[i] # <<>>

\* the saved paths other than self, in saved order
OtherThan(self) ==
  LET Other(s) == s # self IN SelectSeq(ledger.saved, Other)

\* C16: restoring a saved dependency list appends to the Ledger's
\* dependency list, in saved order, every saved path other than the named
\* self path, and not the self path; when no self path is named, every
\* saved path is appended.
C16_RestoreAppendsSaved ==
  JustRestored =>
    ledger.deps = ledger.last.before \o OtherThan(ledger.last.arg)

\* C16 amended: with a self path named, restore appends, in saved order,
\* every saved path other than the self path, each one rewritten by the
\* Ledger's vpath rules as add_dependency rewrites it; with no self path
\* named nothing is appended.
C16_RestoreAppendsRewrittenUnlessNull ==
  JustRestored =>
    LET other == OtherThan(ledger.last.arg) IN
    ledger.deps =
      ledger.last.before
        \o (IF ledger.last.arg = NULL THEN <<>>
            ELSE [i \in 1..Len(other) |-> apply_vpath(ledger, other[i])])

\* a snapshot of two paths, one of them the self path, has been restored
\* and one path appended
C16_Witness ==
  /\ JustRestored
  /\ ledger.last.arg = Path_fb
  /\ Len(ledger.saved) = 2
  /\ Path_fb \in Range(ledger.saved)
  /\ Len(ledger.deps) = Len(ledger.last.before) + 1


\* C17: a rule is not applied to a path in which its prefix and separator
\* are immediately followed by "..", whatever follows the ".." (a
\* separator, another character, or the end of the path); when no other
\* rule matches, the path is changed only by the removal of leading "./"
\* segments and the separators after them.
C17_RuleNotAppliedBeforeDotDot ==
  JustAdded =>
    LET M == {i \in 1..Len(ledger.vpath) :
                PrefixAndSeparator(ledger.vpath, i, AddedPath)}
        D == {i \in M : FollowedBy(ledger.vpath, i, AddedPath, <<46, 46>>)}
    IN  /\ \A i \in D :
             StoredPath #
               remove_leading_dot_slash(Stripped(ledger.vpath, i, AddedPath))
        /\ (D # {} /\ M = D) =>
             StoredPath = remove_leading_dot_slash(AddedPath)


(***************************************************************************)
(* Properties of the targets, under SpecTargets.                           *)
(***************************************************************************)
\* the name the Ledger records for the k-th add_target call: the name given,
\* rewritten as every recorded path is
RecordedName(k) ==
  apply_vpath([vpath |-> ledger.added[k].vpath], ledger.added[k].t)

\* the add_target calls made with this quote flag that recorded this name
AddedAs(quote, name) ==
  {k \in 1..Len(ledger.added) :
     ledger.added[k].quote = quote /\ RecordedName(k) = name}

\* the names of a sequence written one after the other, a space between
\* two, those past the first lwm with Make quoting
RECURSIVE QuotedPast(_, _, _)
QuotedPast(names, lwm, ix) ==
  IF ix > Len(names) THEN <<>>
  ELSE (IF ix = 1 THEN <<>> ELSE <<32>>)
         \o (IF ix > lwm THEN munge(names[ix]) ELSE names[ix])
         \o QuotedPast(names, lwm, ix + 1)

C20_StoredPathsNonEmpty ==
  \A i \in 1..Len(ledger.deps) : ledger.deps[i] # <<>>


(***************************************************************************)
(* Properties of the order of the two writes of a call, under Spec.        *)
(***************************************************************************)
\* the files of the store below <root>/objects and below <root>/metadata
StoreFilesBelow(top) ==
  {f \in DOMAIN files : StoreFile(f) /\ f[Len(RootPath) + 1] = top}

\* C21: within one persist call the metadata record is written only after
\* the document file has been written: a store that holds a metadata record
\* holds a document file, and when the leaf file of the document cannot be
\* opened for writing no metadata file is created.
C21_MetadataOnlyAfterDocument ==
  /\ StoreFilesBelow(Str_metadata) # {} => StoreFilesBelow(Str_objects) # {}
  /\ denyLevel = "leaf" => StoreFilesBelow(Str_metadata) = {}

====
